---- MODULE Spec2Model ----
(***************************************************************************)
(* Operation-resolution and invocation engine of mcp-server-prototype:      *)
(* the runtime dispatch of src/server.ts (invokeStripeByOperationId and the *)
(* CallTool handlers), the wrapper generator of src/unnamed/part_000 and    *)
(* the parser test script src/scripts/test-operationid.js.                  *)
(*                                                                          *)
(* JavaScript strings are sequences of one-character strings, so that the   *)
(* regular expressions, case conversions and concatenations of the source   *)
(* are computed character by character.                                     *)
(***************************************************************************)
EXTENDS Integers, Sequences, FiniteSets, TLC

\* ------------------------------------------------------------------------
\* String literals of the source and of the modelled OpenAPI description
\* ------------------------------------------------------------------------
S_Get == <<"G", "e", "t">>
S_Post == <<"P", "o", "s", "t">>
S_Put == <<"P", "u", "t">>
S_Patch == <<"P", "a", "t", "c", "h">>
S_Delete == <<"D", "e", "l", "e", "t", "e">>
S_v1 == <<"/", "v", "1", "/">>
S_balance == <<"b", "a", "l", "a", "n", "c", "e">>
S_account == <<"a", "c", "c", "o", "u", "n", "t">>
\* the resource names of specialCases
specialCaseNames ==
  [ accounts |-> <<"a", "c", "c", "o", "u", "n", "t", "s">>,
    invoiceitems |-> <<"i", "n", "v", "o", "i", "c", "e", "i", "t", "e", "m", "s">>,
    invoiceItems |-> <<"i", "n", "v", "o", "i", "c", "e", "I", "t", "e", "m", "s">>,
    linkAccountSessions |-> <<"l", "i", "n", "k", "A", "c", "c", "o", "u", "n", "t", "S", "e", "s", "s", "i", "o", "n", "s">>,
    accountSessions |-> <<"a", "c", "c", "o", "u", "n", "t", "S", "e", "s", "s", "i", "o", "n", "s">>,
    linkedAccounts |-> <<"l", "i", "n", "k", "e", "d", "A", "c", "c", "o", "u", "n", "t", "s">>,
    externalAccounts |-> <<"e", "x", "t", "e", "r", "n", "a", "l", "A", "c", "c", "o", "u", "n", "t", "s">>,
    accounts_externalAccounts |-> <<"a", "c", "c", "o", "u", "n", "t", "s", ".", "e", "x", "t", "e", "r", "n", "a", "l", "A", "c", "c", "o", "u", "n", "t", "s">> ]
S_subscriptions == <<"s", "u", "b", "s", "c", "r", "i", "p", "t", "i", "o", "n", "s">>
S_customers == <<"c", "u", "s", "t", "o", "m", "e", "r", "s">>
S_setupIntents == <<"s", "e", "t", "u", "p", "I", "n", "t", "e", "n", "t", "s">>
\* the operationIds and the resource of specialImplementations
specialNames ==
  [ GetBalanceSettings |-> <<"G", "e", "t", "B", "a", "l", "a", "n", "c", "e", "S", "e", "t", "t", "i", "n", "g", "s">>,
    PostBalanceSettings |-> <<"P", "o", "s", "t", "B", "a", "l", "a", "n", "c", "e", "S", "e", "t", "t", "i", "n", "g", "s">>,
    GetLinkAccountSessionsSession |-> <<"G", "e", "t", "L", "i", "n", "k", "A", "c", "c", "o", "u", "n", "t", "S", "e", "s", "s", "i", "o", "n", "s", "S", "e", "s", "s", "i", "o", "n">>,
    PostExternalAccountsId |-> <<"P", "o", "s", "t", "E", "x", "t", "e", "r", "n", "a", "l", "A", "c", "c", "o", "u", "n", "t", "s", "I", "d">>,
    balanceSettings |-> <<"b", "a", "l", "a", "n", "c", "e", "S", "e", "t", "t", "i", "n", "g", "s">> ]
S_GetAccount == <<"G", "e", "t", "A", "c", "c", "o", "u", "n", "t">>
\* the operationIds of the modelled description
Id ==
  [ PostAccount |-> <<"P", "o", "s", "t", "A", "c", "c", "o", "u", "n", "t">>,
    DeleteAccount |-> <<"D", "e", "l", "e", "t", "e", "A", "c", "c", "o", "u", "n", "t">>,
    GetBalance |-> <<"G", "e", "t", "B", "a", "l", "a", "n", "c", "e">>,
    GetCustomers |-> <<"G", "e", "t", "C", "u", "s", "t", "o", "m", "e", "r", "s">>,
    PostCustomers |-> <<"P", "o", "s", "t", "C", "u", "s", "t", "o", "m", "e", "r", "s">>,
    GetCustomersCustomer |-> <<"G", "e", "t", "C", "u", "s", "t", "o", "m", "e", "r", "s", "C", "u", "s", "t", "o", "m", "e", "r">>,
    PostCustomersCustomer |-> <<"P", "o", "s", "t", "C", "u", "s", "t", "o", "m", "e", "r", "s", "C", "u", "s", "t", "o", "m", "e", "r">>,
    DeleteCustomersCustomer |-> <<"D", "e", "l", "e", "t", "e", "C", "u", "s", "t", "o", "m", "e", "r", "s", "C", "u", "s", "t", "o", "m", "e", "r">>,
    PutCustomersCustomer |-> <<"P", "u", "t", "C", "u", "s", "t", "o", "m", "e", "r", "s", "C", "u", "s", "t", "o", "m", "e", "r">>,
    PatchCustomersCustomer |-> <<"P", "a", "t", "c", "h", "C", "u", "s", "t", "o", "m", "e", "r", "s", "C", "u", "s", "t", "o", "m", "e", "r">>,
    DeleteSubscriptionsSubscription |-> <<"D", "e", "l", "e", "t", "e", "S", "u", "b", "s", "c", "r", "i", "p", "t", "i", "o", "n", "s", "S", "u", "b", "s", "c", "r", "i", "p", "t", "i", "o", "n">>,
    GetSetupIntents |-> <<"G", "e", "t", "S", "e", "t", "u", "p", "I", "n", "t", "e", "n", "t", "s">>,
    GetSetupIntentsIntent |-> <<"G", "e", "t", "S", "e", "t", "u", "p", "I", "n", "t", "e", "n", "t", "s", "I", "n", "t", "e", "n", "t">>,
    GetCustomersCustomerSources |-> <<"G", "e", "t", "C", "u", "s", "t", "o", "m", "e", "r", "s", "C", "u", "s", "t", "o", "m", "e", "r", "S", "o", "u", "r", "c", "e", "s">> ]
S_GetNothing == <<"G", "e", "t", "N", "o", "t", "h", "i", "n", "g">>
\* the paths of the modelled description
P ==
  [ customers |-> <<"/", "v", "1", "/", "c", "u", "s", "t", "o", "m", "e", "r", "s">>,
    customers_id |-> <<"/", "v", "1", "/", "c", "u", "s", "t", "o", "m", "e", "r", "s", "/", "{", "c", "u", "s", "t", "o", "m", "e", "r", "}">>,
    subscriptions_id |-> <<"/", "v", "1", "/", "s", "u", "b", "s", "c", "r", "i", "p", "t", "i", "o", "n", "s", "/", "{", "s", "u", "b", "s", "c", "r", "i", "p", "t", "i", "o", "n", "_", "e", "x", "p", "o", "s", "e", "d", "_", "i", "d", "}">>,
    account |-> <<"/", "v", "1", "/", "a", "c", "c", "o", "u", "n", "t">>,
    balance |-> <<"/", "v", "1", "/", "b", "a", "l", "a", "n", "c", "e">>,
    setup_intents |-> <<"/", "v", "1", "/", "s", "e", "t", "u", "p", "_", "i", "n", "t", "e", "n", "t", "s">>,
    setup_intents_id |-> <<"/", "v", "1", "/", "s", "e", "t", "u", "p", "_", "i", "n", "t", "e", "n", "t", "s", "/", "{", "i", "n", "t", "e", "n", "t", "}">>,
    balance_settings |-> <<"/", "v", "1", "/", "b", "a", "l", "a", "n", "c", "e", "_", "s", "e", "t", "t", "i", "n", "g", "s">>,
    customers_sources |-> <<"/", "v", "1", "/", "c", "u", "s", "t", "o", "m", "e", "r", "s", "/", "{", "c", "u", "s", "t", "o", "m", "e", "r", "}", "/", "s", "o", "u", "r", "c", "e", "s">> ]
T_list_api_endpoints == <<"l", "i", "s", "t", "-", "a", "p", "i", "-", "e", "n", "d", "p", "o", "i", "n", "t", "s">>
T_get_api_endpoint_schema == <<"g", "e", "t", "-", "a", "p", "i", "-", "e", "n", "d", "p", "o", "i", "n", "t", "-", "s", "c", "h", "e", "m", "a">>
T_invoke_api_endpoint == <<"i", "n", "v", "o", "k", "e", "-", "a", "p", "i", "-", "e", "n", "d", "p", "o", "i", "n", "t">>
\* the fixed parts of the messages of the handlers
M ==
  [ Operation |-> <<"O", "p", "e", "r", "a", "t", "i", "o", "n", " ", "\"">>,
    not_found_q |-> <<"\"", " ", "n", "o", "t", " ", "f", "o", "u", "n", "d">>,
    resource_not_found_for |-> <<"S", "t", "r", "i", "p", "e", " ", "S", "D", "K", " ", "r", "e", "s", "o", "u", "r", "c", "e", " ", "n", "o", "t", " ", "f", "o", "u", "n", "d", " ", "f", "o", "r", ":", " ">>,
    from_operationId |-> <<" ", "(", "f", "r", "o", "m", " ", "o", "p", "e", "r", "a", "t", "i", "o", "n", "I", "d", ":", " ">>,
    rparen |-> <<")">>,
    not_found |-> <<"n", "o", "t", " ", "f", "o", "u", "n", "d">>,
    Unknown_tool |-> <<"U", "n", "k", "n", "o", "w", "n", " ", "t", "o", "o", "l", ":", " ">>,
    Error_calling |-> <<"E", "r", "r", "o", "r", " ", "c", "a", "l", "l", "i", "n", "g", " ", "S", "t", "r", "i", "p", "e", " ", "A", "P", "I", ":", " ">>,
    Stack |-> <<"\n", "\n", "S", "t", "a", "c", "k", ":", " ">>,
    Error_colon |-> <<"E", "r", "r", "o", "r", ":", " ">>,
    at |-> <<"\n", " ", " ", " ", " ", "a", "t", " ">>,
    No_such_customer |-> <<"N", "o", " ", "s", "u", "c", "h", " ", "c", "u", "s", "t", "o", "m", "e", "r">>,
    Resource_not_found_backend |-> <<"r", "e", "s", "o", "u", "r", "c", "e", " ", "n", "o", "t", " ", "f", "o", "u", "n", "d">>,
    Required |-> <<"R", "e", "q", "u", "i", "r", "e", "d">>,
    Available |-> <<"A", "v", "a", "i", "l", "a", "b", "l", "e", " ", "A", "P", "I", " ", "e", "n", "d", "p", "o", "i", "n", "t", "s", " ", "(">>,
    total |-> <<" ", "t", "o", "t", "a", "l", ")", ":", " ">>,
    comma |-> <<",", " ">>,
    schema_required |-> <<"E", "r", "r", "o", "r", ":", " ", "o", "p", "e", "r", "a", "t", "i", "o", "n", "I", "d", " ", "p", "a", "r", "a", "m", "e", "t", "e", "r", " ", "i", "s", " ", "r", "e", "q", "u", "i", "r", "e", "d", ".", " ", "E", "x", "a", "m", "p", "l", "e", ":", " ", "{", "\"", "o", "p", "e", "r", "a", "t", "i", "o", "n", "I", "d", "\"", ":", " ", "\"", "P", "o", "s", "t", "C", "u", "s", "t", "o", "m", "e", "r", "s", "\"", "}">>,
    Error_Operation |-> <<"E", "r", "r", "o", "r", ":", " ", "O", "p", "e", "r", "a", "t", "i", "o", "n", " ", "\"">>,
    not_found_use |-> <<"\"", " ", "n", "o", "t", " ", "f", "o", "u", "n", "d", ".", " ", "U", "s", "e", " ", "l", "i", "s", "t", "-", "a", "p", "i", "-", "e", "n", "d", "p", "o", "i", "n", "t", "s", " ", "t", "o", " ", "s", "e", "e", " ", "a", "v", "a", "i", "l", "a", "b", "l", "e", " ", "o", "p", "e", "r", "a", "t", "i", "o", "n", "s", ".">> ]
J_result == <<"{", "}">>
S_OptionsBalance == <<"O", "p", "t", "i", "o", "n", "s", "B", "a", "l", "a", "n", "c", "e">>
P_customer_list == <<"/", "v", "1", "/", "c", "u", "s", "t", "o", "m", "e", "r", "_", "l", "i", "s", "t">>
M_export_open == <<"e", "x", "p", "o", "r", "t", " ", "{", " ">>
M_export_from == <<" ", "}", " ", "f", "r", "o", "m", " ", "\"", ".", "/">>
M_export_close == <<".", "j", "s", "\"", ";">>
M_index_header == <<"/", "/", " ", "E", "x", "p", "o", "r", "t", " ", "a", "l", "l", " ", "o", "p", "e", "r", "a", "t", "i", "o", "n", " ", "f", "u", "n", "c", "t", "i", "o", "n", "s", "\n", "/", "/", " ", "E", "a", "c", "h", " ", "f", "i", "l", "e", " ", "i", "s", " ", "s", "e", "l", "f", "-", "c", "o", "n", "t", "a", "i", "n", "e", "d", " ", "w", "i", "t", "h", " ", "i", "t", "s", " ", "o", "w", "n", " ", "i", "n", "l", "i", "n", "e", " ", "t", "y", "p", "e", " ", "d", "e", "f", "i", "n", "i", "t", "i", "o", "n", "s", "\n">>
F_ts == <<".", "t", "s">>
F_index == <<"i", "n", "d", "e", "x", ".", "t", "s">>
M_newline == <<"\n">>
\* the pieces of JSON.stringify(schemaWithExample, null, 2) between the values
J ==
  [ operationId |-> <<"{", "\n", " ", " ", "\"", "o", "p", "e", "r", "a", "t", "i", "o", "n", "I", "d", "\"", ":", " ", "\"">>,
    path |-> <<"\"", ",", "\n", " ", " ", "\"", "p", "a", "t", "h", "\"", ":", " ", "\"">>,
    method |-> <<"\"", ",", "\n", " ", " ", "\"", "m", "e", "t", "h", "o", "d", "\"", ":", " ", "\"">>,
    description_parameters |-> <<"\"", ",", "\n", " ", " ", "\"", "d", "e", "s", "c", "r", "i", "p", "t", "i", "o", "n", "\"", ":", " ", "\"", "\"", ",", "\n", " ", " ", "\"", "p", "a", "r", "a", "m", "e", "t", "e", "r", "s", "\"", ":", " ">>,
    empty_array |-> <<"[", "]">>,
    array_open |-> <<"[", "\n">>,
    array_close |-> <<"\n", " ", " ", "]">>,
    array_comma |-> <<",", "\n">>,
    param_name |-> <<" ", " ", " ", " ", "{", "\n", " ", " ", " ", " ", " ", " ", "\"", "n", "a", "m", "e", "\"", ":", " ", "\"">>,
    param_in |-> <<"\"", ",", "\n", " ", " ", " ", " ", " ", " ", "\"", "i", "n", "\"", ":", " ", "\"">>,
    param_close |-> <<"\"", "\n", " ", " ", " ", " ", "}">>,
    requestBody_example |-> <<",", "\n", " ", " ", "\"", "r", "e", "q", "u", "e", "s", "t", "B", "o", "d", "y", "\"", ":", " ", "n", "u", "l", "l", ",", "\n", " ", " ", "\"", "r", "e", "s", "p", "o", "n", "s", "e", "s", "\"", ":", " ", "{", "}", ",", "\n", " ", " ", "\"", "e", "x", "a", "m", "p", "l", "e", "_", "i", "n", "v", "o", "c", "a", "t", "i", "o", "n", "\"", ":", " ", "{", "\n", " ", " ", " ", " ", "\"", "t", "o", "o", "l", "\"", ":", " ", "\"", "i", "n", "v", "o", "k", "e", "-", "a", "p", "i", "-", "e", "n", "d", "p", "o", "i", "n", "t", "\"", ",", "\n", " ", " ", " ", " ", "\"", "o", "p", "e", "r", "a", "t", "i", "o", "n", "I", "d", "\"", ":", " ", "\"">>,
    example_note |-> <<"\"", ",", "\n", " ", " ", " ", " ", "\"", "p", "a", "r", "a", "m", "e", "t", "e", "r", "s", "\"", ":", " ", "{", "}", ",", "\n", " ", " ", " ", " ", "\"", "n", "o", "t", "e", "\"", ":", " ", "\"", "R", "e", "p", "l", "a", "c", "e", " ", "t", "h", "e", " ", "p", "l", "a", "c", "e", "h", "o", "l", "d", "e", "r", " ", "v", "a", "l", "u", "e", "s", " ", "(", "e", ".", "g", ".", ",", " ", "<", "p", "r", "o", "v", "i", "d", "e", "_", "n", "a", "m", "e", "_", "v", "a", "l", "u", "e", ">", ")", " ", "w", "i", "t", "h", " ", "a", "c", "t", "u", "a", "l", " ", "v", "a", "l", "u", "e", "s", " ", "f", "r", "o", "m", " ", "t", "h", "e", " ", "u", "s", "e", "r", "'", "s", " ", "r", "e", "q", "u", "e", "s", "t", ".", " ", "I", "M", "P", "O", "R", "T", "A", "N", "T", ":", " ", "T", "h", "e", " ", "r", "e", "q", "u", "i", "r", "e", "d", " ", "p", "a", "r", "a", "m", "e", "t", "e", "r", "s", " ", "m", "u", "s", "t", " ", "b", "e", " ", "i", "n", "c", "l", "u", "d", "e", "d", " ", "i", "n", " ", "t", "h", "e", " ", "p", "a", "r", "a", "m", "e", "t", "e", "r", "s", " ", "o", "b", "j", "e", "c", "t", ".", "\"", "\n", " ", " ", "}", "\n", "}">> ]

\* ------------------------------------------------------------------------
\* JavaScript string primitives
\* ------------------------------------------------------------------------
UpperChars == <<"A", "B", "C", "D", "E", "F", "G", "H", "I", "J", "K", "L", "M", "N", "O", "P", "Q", "R", "S", "T", "U", "V", "W", "X", "Y", "Z">>

LowerChars == <<"a", "b", "c", "d", "e", "f", "g", "h", "i", "j", "k", "l", "m", "n", "o", "p", "q", "r", "s", "t", "u", "v", "w", "x", "y", "z">>

\* the character class [A-Z]
IsUpper(c) == \E i \in 1..Len(UpperChars) : UpperChars[i] = c

\* the character class [a-z]
IsLower(c) == \E i \in 1..Len(LowerChars) : LowerChars[i] = c

toLowerCaseChar(c) ==
  IF IsUpper(c) THEN LowerChars[CHOOSE i \in 1..Len(UpperChars) : UpperChars[i] = c] ELSE c

toUpperCaseChar(c) ==
  IF IsLower(c) THEN UpperChars[CHOOSE i \in 1..Len(LowerChars) : LowerChars[i] = c] ELSE c

\* String.prototype.toLowerCase
toLowerCase(s) == [i \in 1..Len(s) |-> toLowerCaseChar(s[i])]

\* String.prototype.startsWith
startsWith(s, p) == Len(s) >= Len(p) /\ SubSeq(s, 1, Len(p)) = p

\* String.prototype.endsWith
endsWith(s, p) == Len(s) >= Len(p) /\ SubSeq(s, Len(s) - Len(p) + 1, Len(s)) = p

\* String.prototype.includes
includes(s, sub) == \E i \in 0..(Len(s) - Len(sub)) : SubSeq(s, i + 1, i + Len(sub)) = sub

\* String.prototype.slice(from) with a 0-based start index
sliceFrom(s, from) == SubSeq(s, from + 1, Len(s))

\* Array.prototype.join("")
RECURSIVE join(_)
join(parts) == IF parts = <<>> THEN <<>> ELSE Head(parts) \o join(Tail(parts))

\* position of the first occurrence of character c in s, 0 when there is none
indexOfChar(s, c) ==
  IF \E i \in 1..Len(s) : s[i] = c
  THEN CHOOSE i \in 1..Len(s) : s[i] = c /\ \A j \in 1..(i - 1) : s[j] # c
  ELSE 0

\* the printable characters in the order of their UTF-16 code units, from 32
\* (code unit 96, the grave accent, does not occur in the modelled strings)
Ascii ==
  <<" ", "!", "\"", "#", "$", "%", "&", "'", "(", ")", "*", "+", ",", "-", ".", "/",
    "0", "1", "2", "3", "4", "5", "6", "7", "8", "9", ":", ";", "<", "=", ">", "?",
    "@", "A", "B", "C", "D", "E", "F", "G", "H", "I", "J", "K", "L", "M", "N", "O",
    "P", "Q", "R", "S", "T", "U", "V", "W", "X", "Y", "Z", "[", "\\", "]", "^", "_",
    "<96>", "a", "b", "c", "d", "e", "f", "g", "h", "i", "j", "k", "l", "m", "n", "o",
    "p", "q", "r", "s", "t", "u", "v", "w", "x", "y", "z", "{", "|", "}", "~">>

\* String.prototype.charCodeAt of a one-character string
charCodeAt(c) ==
  IF c = "\n" THEN 10 ELSE 31 + (CHOOSE i \in 1..Len(Ascii) : Ascii[i] = c)

\* a < b for two strings: the comparison of the default Array.prototype.sort,
\* code unit by code unit, a proper prefix first
RECURSIVE stringLess(_, _)
stringLess(a, b) ==
  IF b = <<>> THEN FALSE
  ELSE IF a = <<>> THEN TRUE
  ELSE IF Head(a) # Head(b) THEN charCodeAt(Head(a)) < charCodeAt(Head(b))
  ELSE stringLess(Tail(a), Tail(b))

\* one string put in its place in a sorted array, after its equals
RECURSIVE insertSorted(_, _)
insertSorted(sorted, s) ==
  IF sorted = <<>> THEN <<s>>
  ELSE IF stringLess(s, Head(sorted)) THEN <<s>> \o sorted
  ELSE <<Head(sorted)>> \o insertSorted(Tail(sorted), s)

\* Array.prototype.sort() with no comparator: ascending, stable
RECURSIVE sort(_)
sort(array) ==
  IF array = <<>> THEN <<>>
  ELSE insertSorted(sort(SubSeq(array, 1, Len(array) - 1)), array[Len(array)])

\* Array.prototype.join(separator)
RECURSIVE joinWith(_, _)
joinWith(parts, separator) ==
  IF parts = <<>> THEN <<>>
  ELSE IF Len(parts) = 1 THEN Head(parts)
  ELSE Head(parts) \o separator \o joinWith(Tail(parts), separator)

\* the decimal digits of a number in a template literal: ${n}
RECURSIVE numberToString(_)
numberToString(n) ==
  IF n < 10 THEN <<Ascii[17 + n]>>
  ELSE numberToString(n \div 10) \o <<Ascii[17 + (n % 10)]>>

\* String.prototype.toUpperCase
toUpperCase(s) == [i \in 1..Len(s) |-> toUpperCaseChar(s[i])]

\* ------------------------------------------------------------------------
\* Operation Name Parser
\* ------------------------------------------------------------------------
\* the alternatives of /^(Get|Post|Put|Patch|Delete)/ in the order of the regex
verbPrefixes == <<S_Get, S_Post, S_Put, S_Patch, S_Delete>>

\* operationId.replace(/^(Get|Post|Put|Patch|Delete)/, "")
replaceVerbPrefix(operationId) ==
  IF \E i \in 1..Len(verbPrefixes) : startsWith(operationId, verbPrefixes[i])
  THEN LET i == CHOOSE k \in 1..Len(verbPrefixes) :
                  /\ startsWith(operationId, verbPrefixes[k])
                  /\ \A j \in 1..(k - 1) : ~startsWith(operationId, verbPrefixes[j])
       IN  sliceFrom(operationId, Len(verbPrefixes[i]))
  ELSE operationId

\* resourcePath.split(/(?=[A-Z])/): a cut before every capital letter but the
\* one at index 0; the empty string splits into one empty part
RECURSIVE splitFrom(_, _, _)
splitFrom(s, i, acc) ==
  IF i > Len(s) THEN acc
  ELSE IF i > 1 /\ IsUpper(s[i])
       THEN splitFrom(s, i + 1, Append(acc, <<s[i]>>))
       ELSE splitFrom(s, i + 1, [acc EXCEPT ![Len(acc)] = Append(@, s[i])])

splitAtCapitals(s) == splitFrom(s, 1, << <<>> >>)

\* str.replace(/s$/, "")
replaceTrailingS(s) ==
  IF Len(s) > 0 /\ s[Len(s)] = "s" THEN SubSeq(s, 1, Len(s) - 1) ELSE s

\* mutant of parseOperationId: the second part is compared without lower-casing it
parseOperationId_CaseSensitive(operationId) ==
  LET resourcePath == replaceVerbPrefix(operationId)
      parts == splitAtCapitals(resourcePath)
      firstPartSingular == replaceTrailingS(toLowerCase(parts[1]))
      secondPart == IF Len(parts) > 1 THEN parts[2] ELSE <<>>
      isDetailOperation == Len(parts) > 1 /\ firstPartSingular = secondPart
      mainResource == IF isDetailOperation
                      THEN toLowerCase(parts[1])
                      ELSE toLowerCase(parts[1]) \o join(Tail(parts))
  IN  [parts |-> parts, isDetailOperation |-> isDetailOperation, mainResource |-> mainResource]

\* mutant of parseOperationId: the resource name loses a trailing s
parseOperationId_Singular(operationId) ==
  LET resourcePath == replaceVerbPrefix(operationId)
      parts == splitAtCapitals(resourcePath)
      firstPartSingular == replaceTrailingS(toLowerCase(parts[1]))
      secondPart == IF Len(parts) > 1 THEN toLowerCase(parts[2]) ELSE <<>>
      isDetailOperation == Len(parts) > 1 /\ firstPartSingular = secondPart
      mainResource == IF isDetailOperation
                      THEN toLowerCase(parts[1])
                      ELSE toLowerCase(parts[1]) \o join(Tail(parts))
  IN  [parts |-> parts, isDetailOperation |-> isDetailOperation,
       mainResource |-> replaceTrailingS(mainResource)]

\* server.ts: the parsing block of invokeStripeByOperationId
parseOperationId(operationId) ==
  LET resourcePath == replaceVerbPrefix(operationId)
      parts == splitAtCapitals(resourcePath)
      firstPartSingular == replaceTrailingS(toLowerCase(parts[1]))
      secondPart == IF Len(parts) > 1 THEN toLowerCase(parts[2]) ELSE <<>>
      isDetailOperation == Len(parts) > 1 /\ firstPartSingular = secondPart
      mainResource == IF isDetailOperation
                      THEN toLowerCase(parts[1])
                      ELSE toLowerCase(parts[1]) \o join(Tail(parts))
  IN  [parts |-> parts, isDetailOperation |-> isDetailOperation, mainResource |-> mainResource]

\* scripts/test-operationid.js: what testOperationId prints for an operationId
testOperationId(operationId) ==
  LET resourcePath == replaceVerbPrefix(operationId)
      parts == splitAtCapitals(resourcePath)
      firstPartSingular == replaceTrailingS(toLowerCase(parts[1]))
      secondPart == IF Len(parts) > 1 THEN toLowerCase(parts[2]) ELSE <<>>
      isDetailOperation == Len(parts) > 1 /\ firstPartSingular = secondPart
      mainResource == IF isDetailOperation
                      THEN toLowerCase(parts[1])
                      ELSE toLowerCase(parts[1]) \o join(SubSeq(parts, 2, Len(parts)))
  IN  [parts |-> parts, isDetailOperation |-> isDetailOperation, mainResource |-> mainResource]

\* ------------------------------------------------------------------------
\* Schema Index: the loaded OpenAPI description and its lookups
\* ------------------------------------------------------------------------
\* topLevelRegex = /^\/v1\/[^\/]+$/
topLevelRegex(path) ==
  /\ startsWith(path, S_v1)
  /\ Len(path) > Len(S_v1)
  /\ indexOfChar(sliceFrom(path, Len(S_v1)), "/") = 0

\* mutant of detailLevelRegex: the pattern without its end anchor
detailLevelRegex_Unanchored(path) ==
  /\ startsWith(path, S_v1)
  /\ LET rest == sliceFrom(path, Len(S_v1))
         slash == indexOfChar(rest, "/")
     IN  /\ slash > 1
         /\ Len(rest) >= slash + 3
         /\ rest[slash + 1] = "{"
         /\ rest[slash + 2] # "}"
         /\ \E k \in (slash + 3)..Len(rest) : rest[k] = "}"

\* detailLevelRegex = /^\/v1\/[^\/]+\/\{[^}]+\}$/
detailLevelRegex(path) ==
  /\ startsWith(path, S_v1)
  /\ LET rest == sliceFrom(path, Len(S_v1))
         slash == indexOfChar(rest, "/")
         inner == SubSeq(rest, slash + 2, Len(rest) - 1)
     IN  /\ slash > 1
         /\ Len(rest) >= slash + 3
         /\ rest[slash + 1] = "{"
         /\ rest[Len(rest)] = "}"
         /\ indexOfChar(inner, "}") = 0

httpMethods == <<"get", "post", "put", "patch", "delete">>

\* a parameter descriptor of an operation
Param(name, in) == [name |-> name, in |-> in]

\* an operation object of a path item
Operation(operationId, parameters) == [operationId |-> operationId, parameters |-> parameters]

\* The OpenAPI description the process loads (data/spec3.clean.json): Stripe's
\* operations on the customers, subscriptions, account, balance, setup_intents and
\* balance_settings paths, one nested path, and one operation with a verb
\* that httpMethods does not list.
spec3 ==
  << [path |-> P.customers,
      item |-> ("get" :> Operation(Id.GetCustomers, <<Param("email", "query")>>)
                @@ "post" :> Operation(Id.PostCustomers, <<>>))],
     [path |-> P.customers_id,
      item |-> ("get" :> Operation(Id.GetCustomersCustomer, <<Param("email", "query"), Param("customer", "path")>>)
                @@ "post" :> Operation(Id.PostCustomersCustomer, <<Param("customer", "path")>>)
                @@ "put" :> Operation(Id.PutCustomersCustomer, <<Param("customer", "path")>>)
                @@ "patch" :> Operation(Id.PatchCustomersCustomer, <<Param("customer", "path")>>)
                @@ "delete" :> Operation(Id.DeleteCustomersCustomer, <<Param("customer", "path")>>))],
     [path |-> P.customers_sources,
      item |-> ("get" :> Operation(Id.GetCustomersCustomerSources, <<Param("customer", "path")>>))],
     [path |-> P.subscriptions_id,
      item |-> ("delete" :> Operation(Id.DeleteSubscriptionsSubscription, <<Param("subscription_exposed_id", "path")>>))],
     [path |-> P.account,
      item |-> ("get" :> Operation(S_GetAccount, <<>>)
                @@ "post" :> Operation(Id.PostAccount, <<>>)
                @@ "delete" :> Operation(Id.DeleteAccount, <<>>))],
     [path |-> P.balance,
      item |-> ("get" :> Operation(Id.GetBalance, <<>>)
                @@ "options" :> Operation(S_OptionsBalance, <<>>))],
     [path |-> P.setup_intents,
      item |-> ("get" :> Operation(Id.GetSetupIntents, <<>>))],
     [path |-> P.setup_intents_id,
      item |-> ("get" :> Operation(Id.GetSetupIntentsIntent, <<Param("intent", "path")>>))],
     [path |-> P.balance_settings,
      item |-> ("get" :> Operation(specialNames.GetBalanceSettings, <<>>))] >>

\* the (path, method) pairs the two lookups visit, in visiting order: paths in
\* document order, restricted to the two recognized shapes, methods in
\* httpMethods order, restricted to those the path item defines
RECURSIVE indexedFrom(_, _, _)
indexedFrom(paths, i, k) ==
  IF i > Len(paths) THEN <<>>
  ELSE IF k > Len(httpMethods) THEN indexedFrom(paths, i + 1, 1)
  ELSE IF /\ (topLevelRegex(paths[i].path) \/ detailLevelRegex(paths[i].path))
          /\ httpMethods[k] \in DOMAIN paths[i].item
       THEN <<[operation |-> paths[i].item[httpMethods[k]],
               path |-> paths[i].path,
               method |-> httpMethods[k]]>> \o indexedFrom(paths, i, k + 1)
       ELSE indexedFrom(paths, i, k + 1)

indexedOperations(paths) == indexedFrom(paths, 1, 1)

\* findOperationById: the first indexed operation with that operationId, or NotFound
NotFound == [found |-> FALSE]

findOperationById(paths, operationId) ==
  LET ops == indexedOperations(paths)
      hits == {i \in 1..Len(ops) : ops[i].operation.operationId = operationId}
  IN  IF hits = {} THEN NotFound
      ELSE LET i == CHOOSE h \in hits : \A g \in hits : h <= g
           IN  [found |-> TRUE, operation |-> ops[i].operation,
                path |-> ops[i].path, method |-> ops[i].method]

\* listAllOperationIds: the operationIds in visiting order
listAllOperationIds(paths) ==
  LET ops == indexedOperations(paths)
  IN  [i \in 1..Len(ops) |-> ops[i].operation.operationId]

\* ------------------------------------------------------------------------
\* Parameter bags and backend calls
\* ------------------------------------------------------------------------
\* the value of a property that is not there
Undefined == "<undefined>"

\* params[key]
lookup(params, key) == IF key \in DOMAIN params THEN params[key] ELSE Undefined

\* delete params[key]   and   const { key: _, ...options } = params
deleteKey(params, key) == [k \in DOMAIN params \ {key} |-> params[k]]

\* the capabilities of the Stripe client object that the modelled operations can name
stripeResources ==
  {S_customers, S_subscriptions, S_account, specialCaseNames.accounts, S_balance, S_setupIntents,
   specialNames.balanceSettings, specialCaseNames.accountSessions, specialCaseNames.invoiceItems}

\* a call of a method of a backend resource: stripe[resource].method(...ids, options)
Call(resource, method, ids, options) ==
  [resource |-> resource, method |-> method, ids |-> ids, options |-> options]

NoCall == Call(<<>>, "", <<>>, <<>>)

\* new Error(message): the message and the trace that starts with it
newError(message) == [message |-> message, stack |-> M.Error_colon \o message \o M.at]

NoError == [message |-> <<>>, stack |-> <<>>]

\* parameters.find((p) => p.in === "path")?.name, null (falsy, like "") when none
pathParamNameOf(parameters) ==
  LET hits == {i \in 1..Len(parameters) : parameters[i].in = "path"}
  IN  IF hits = {} THEN ""
      ELSE parameters[CHOOSE h \in hits : \A g \in hits : h <= g].name

\* ------------------------------------------------------------------------
\* Runtime mode: invokeStripeByOperationId
\* ------------------------------------------------------------------------
\* server.ts: isSingleton of the runtime resolution
isSingletonRuntime(mainResource) ==
  \/ ~endsWith(mainResource, <<"s">>)
  \/ mainResource = S_balance
  \/ mainResource = S_account

\* mutant of callWithId: the identifier key is left in the body
callWithId_KeepsKey(mainResource, method, pathParamName, params) ==
  LET key == IF pathParamName # "" THEN pathParamName ELSE "id"
  IN  Call(mainResource, method, <<lookup(params, key)>>, params)

\* const id = pathParamName ? params[pathParamName] : params.id;
\* if (pathParamName) delete params[pathParamName]; else delete params.id;
\* result = await resource.method(id, params)
callWithId(mainResource, method, pathParamName, params) ==
  LET key == IF pathParamName # "" THEN pathParamName ELSE "id"
  IN  Call(mainResource, method, <<lookup(params, key)>>, deleteKey(params, key))

\* mutant of runtimeCall: post does not look at isDetailOperation
runtimeCall_PostCreates(foundMethod, isSingleton, isDetailOperation, mainResource, pathParamName, params) ==
  IF foundMethod = "get"
  THEN IF isSingleton THEN Call(mainResource, "retrieve", <<>>, params)
       ELSE IF isDetailOperation THEN callWithId(mainResource, "retrieve", pathParamName, params)
       ELSE Call(mainResource, "list", <<>>, params)
  ELSE IF foundMethod = "post"
  THEN Call(mainResource, "create", <<>>, params)
  ELSE IF foundMethod = "delete"
  THEN callWithId(mainResource, "del", pathParamName, params)
  ELSE IF foundMethod = "patch" \/ foundMethod = "put"
  THEN callWithId(mainResource, "update", pathParamName, params)
  ELSE NoCall

\* mutant of runtimeCall: get does not look at isSingleton
runtimeCall_GetIgnoresSingleton(foundMethod, isSingleton, isDetailOperation, mainResource, pathParamName, params) ==
  IF foundMethod = "get"
  THEN IF isDetailOperation THEN callWithId(mainResource, "retrieve", pathParamName, params)
       ELSE Call(mainResource, "list", <<>>, params)
  ELSE IF foundMethod = "post"
  THEN IF isDetailOperation THEN callWithId(mainResource, "update", pathParamName, params)
       ELSE Call(mainResource, "create", <<>>, params)
  ELSE IF foundMethod = "delete"
  THEN callWithId(mainResource, "del", pathParamName, params)
  ELSE IF foundMethod = "patch" \/ foundMethod = "put"
  THEN callWithId(mainResource, "update", pathParamName, params)
  ELSE NoCall

\* server.ts: the branch on foundMethod that makes the API call; NoCall when no
\* branch matches
runtimeCall(foundMethod, isSingleton, isDetailOperation, mainResource, pathParamName, params) ==
  IF foundMethod = "get"
  THEN IF isSingleton THEN Call(mainResource, "retrieve", <<>>, params)
       ELSE IF isDetailOperation THEN callWithId(mainResource, "retrieve", pathParamName, params)
       ELSE Call(mainResource, "list", <<>>, params)
  ELSE IF foundMethod = "post"
  THEN IF isDetailOperation THEN callWithId(mainResource, "update", pathParamName, params)
       ELSE Call(mainResource, "create", <<>>, params)
  ELSE IF foundMethod = "delete"
  THEN callWithId(mainResource, "del", pathParamName, params)
  ELSE IF foundMethod = "patch" \/ foundMethod = "put"
  THEN callWithId(mainResource, "update", pathParamName, params)
  ELSE NoCall

\* `Operation "${operationId}" not found`
operationNotFoundMessage(operationId) == M.Operation \o operationId \o M.not_found_q

\* `Stripe SDK resource not found for: ${mainResource} (from operationId: ${operationId})`
resourceNotFoundMessage(mainResource, operationId) ==
  M.resource_not_found_for \o mainResource \o M.from_operationId \o operationId \o M.rparen

\* the locals of invokeStripeByOperationId before it has run
NoResolution ==
  [outcome |-> "none", error |-> NoError, call |-> NoCall,
   found |-> FALSE, method |-> "", path |-> <<>>, pathParamName |-> "",
   isDetailOperation |-> FALSE, mainResource |-> <<>>, isSingleton |-> FALSE]

\* invokeStripeByOperationId up to its await: what it throws, or the backend
\* call it makes, with the locals of the resolution
\*   outcome "throw": error is thrown before any backend call
\*   outcome "call":  call is made and awaited
\*   outcome "return": no branch matched, undefined is returned
invokeStripeByOperationId(paths, operationId, parameters) ==
  LET found == findOperationById(paths, operationId)
      blank == [NoResolution EXCEPT !.outcome = "throw"]
  IN  IF ~found.found
      THEN [blank EXCEPT !.error = newError(operationNotFoundMessage(operationId))]
      ELSE LET parsed == parseOperationId(operationId)
               mainResource == parsed.mainResource
               isSingleton == isSingletonRuntime(mainResource)
               resolved == [blank EXCEPT !.found = TRUE, !.method = found.method,
                                         !.path = found.path,
                                         !.isDetailOperation = parsed.isDetailOperation,
                                         !.mainResource = mainResource,
                                         !.isSingleton = isSingleton]
           IN  IF mainResource \notin stripeResources
               THEN [resolved EXCEPT !.error = newError(resourceNotFoundMessage(mainResource, operationId))]
               ELSE LET pathParamName == pathParamNameOf(found.operation.parameters)
                        call == runtimeCall(found.method, isSingleton, parsed.isDetailOperation,
                                            mainResource, pathParamName, parameters)
                    IN  [resolved EXCEPT !.outcome = IF call.method = "" THEN "return" ELSE "call",
                                         !.call = call,
                                         !.pathParamName = pathParamName]

\* ------------------------------------------------------------------------
\* Emission mode: the wrapper generator
\* ------------------------------------------------------------------------
\* generator copy of topLevelRegex
genTopLevelRegex(path) ==
  /\ startsWith(path, S_v1)
  /\ Len(path) > Len(S_v1)
  /\ \A i \in (Len(S_v1) + 1)..Len(path) : path[i] # "/"

\* generator copy of detailLevelRegex
genDetailLevelRegex(path) ==
  \E slash \in (Len(S_v1) + 2)..(Len(path) - 3) :
    /\ startsWith(path, S_v1)
    /\ \A i \in (Len(S_v1) + 1)..(slash - 1) : path[i] # "/"
    /\ path[slash] = "/"
    /\ path[slash + 1] = "{"
    /\ \A i \in (slash + 2)..(Len(path) - 1) : path[i] # "}"
    /\ path[Len(path)] = "}"

genHttpMethods == <<"get", "post", "put", "patch", "delete">>

\* listAllOperations: the operations of the recognized path shapes, in document order
RECURSIVE listFrom(_, _, _)
listFrom(paths, i, k) ==
  IF i > Len(paths) THEN <<>>
  ELSE IF k > Len(genHttpMethods) \/ ~(genTopLevelRegex(paths[i].path) \/ genDetailLevelRegex(paths[i].path))
       THEN listFrom(paths, i + 1, 1)
  ELSE IF genHttpMethods[k] \in DOMAIN paths[i].item
       THEN <<[operationId |-> paths[i].item[genHttpMethods[k]].operationId,
               path |-> paths[i].path,
               method |-> genHttpMethods[k],
               parameters |-> paths[i].item[genHttpMethods[k]].parameters]>>
            \o listFrom(paths, i, k + 1)
       ELSE listFrom(paths, i, k + 1)

listAllOperations(paths) == listFrom(paths, 1, 1)

\* str.replace(/_([a-z])/g, (_, letter) => letter.toUpperCase())
RECURSIVE snakeToCamelFrom(_, _)
snakeToCamelFrom(s, i) ==
  IF i > Len(s) THEN <<>>
  ELSE IF s[i] = "_" /\ i < Len(s) /\ IsLower(s[i + 1])
       THEN <<toUpperCaseChar(s[i + 1])>> \o snakeToCamelFrom(s, i + 2)
       ELSE <<s[i]>> \o snakeToCamelFrom(s, i + 1)

\* pathToResourceName: the first segment after /v1/, snake_case to camelCase
pathToResourceName(path) ==
  IF ~startsWith(path, S_v1) \/ Len(path) = Len(S_v1) \/ path[Len(S_v1) + 1] = "/"
  THEN <<>>
  ELSE LET rest == sliceFrom(path, Len(S_v1))
           slash == indexOfChar(rest, "/")
           pathResource == IF slash = 0 THEN rest ELSE SubSeq(rest, 1, slash - 1)
       IN  snakeToCamelFrom(pathResource, 1)

\* the specialCases table of generateOperationWrapper, applied to mainResource
specialCases(mainResource, method, isDetailPath) ==
  IF mainResource = specialCaseNames.invoiceitems THEN specialCaseNames.invoiceItems
  ELSE IF mainResource = S_account
       THEN (IF method = "get" /\ ~isDetailPath THEN specialCaseNames.accounts ELSE S_account)
  ELSE IF mainResource = specialCaseNames.linkAccountSessions THEN specialCaseNames.accountSessions
  ELSE IF mainResource = specialCaseNames.linkedAccounts THEN specialCaseNames.accounts
  ELSE IF mainResource = specialCaseNames.externalAccounts THEN specialCaseNames.accounts_externalAccounts
  ELSE mainResource

\* generator: isSingleton
singletonResources == {S_balance, S_account}

\* mutant of isSingletonGenerator: the singleton view of accounts is forgotten
isSingletonGenerator_SetOnly(mainResource, method, isDetailPath, operationId) ==
  mainResource \in singletonResources

isSingletonGenerator(mainResource, method, isDetailPath, operationId) ==
  \/ mainResource \in singletonResources
  \/ (mainResource = specialCaseNames.accounts /\ method = "get" /\ ~isDetailPath /\ operationId = S_GetAccount)

\* The body of an emitted wrapper:
\*   return await stripe.<resource>.<method>(<ids>, <params without the omit keys>)
\* each identifier argument is read from the first of its keys that is set
Implementation(resource, method, ids, omit) ==
  [resource |-> resource, method |-> method, ids |-> ids, omit |-> omit]

NoImplementation == Implementation(<<>>, "", <<>>, {})

\* the operationIds of the specialImplementations table
specialOperationIds ==
  {specialNames.GetBalanceSettings, specialNames.PostBalanceSettings, specialNames.GetLinkAccountSessionsSession, specialNames.PostExternalAccountsId}

\* the specialImplementations table
specialImplementations(operationId) ==
  IF operationId = specialNames.GetBalanceSettings
  THEN Implementation(specialNames.balanceSettings, "retrieve", <<>>, {})
  ELSE IF operationId = specialNames.PostBalanceSettings
  THEN Implementation(specialNames.balanceSettings, "update", <<>>, {})
  ELSE IF operationId = specialNames.GetLinkAccountSessionsSession
  THEN Implementation(specialCaseNames.accountSessions, "retrieve", << <<"session">> >>, {"session"})
  ELSE Implementation(specialCaseNames.accounts, "updateExternalAccount",
                      << <<"account", "accountId">>, <<"id">> >>, {"id", "account", "accountId"})

\* the emitted text of a call that takes the identifier out of params
implementationWithId(mainResource, method, pathParamName) ==
  LET idParam == IF pathParamName # "" THEN pathParamName ELSE "id"
  IN  Implementation(mainResource, method, << <<idParam>> >>, {idParam})

\* generator: the branch on httpMethod that renders the implementation
tableImplementation(httpMethod, isSingleton, isDetailPath, mainResource, pathParamName) ==
  IF httpMethod = "get"
  THEN IF isSingleton THEN Implementation(mainResource, "retrieve", <<>>, {})
       ELSE IF isDetailPath THEN implementationWithId(mainResource, "retrieve", pathParamName)
       ELSE Implementation(mainResource, "list", <<>>, {})
  ELSE IF httpMethod = "post"
  THEN IF isDetailPath THEN implementationWithId(mainResource, "update", pathParamName)
       ELSE Implementation(mainResource, "create", <<>>, {})
  ELSE IF httpMethod = "delete"
  THEN IF mainResource = S_subscriptions
       THEN implementationWithId(mainResource, "cancel", pathParamName)
       ELSE implementationWithId(mainResource, "del", pathParamName)
  ELSE IF httpMethod = "patch" \/ httpMethod = "put"
  THEN implementationWithId(mainResource, "update", pathParamName)
  ELSE NoImplementation

\* generateOperationWrapper: the resolution of one operation and the
\* implementation rendered into its artifact
generateOperationWrapper(operation) ==
  LET isDetailPath == \E i \in 1..Len(operation.path) : operation.path[i] = "{"
      mainResource == specialCases(pathToResourceName(operation.path), operation.method, isDetailPath)
      isSingleton == isSingletonGenerator(mainResource, operation.method, isDetailPath, operation.operationId)
      pathParamName == pathParamNameOf(operation.parameters)
      special == operation.operationId \in specialOperationIds
  IN  [operationId |-> operation.operationId,
       method |-> operation.method,
       isDetailPath |-> isDetailPath,
       mainResource |-> mainResource,
       isSingleton |-> isSingleton,
       pathParamName |-> pathParamName,
       special |-> special,
       implementation |-> IF special THEN specialImplementations(operation.operationId)
                          ELSE tableImplementation(operation.method, isSingleton, isDetailPath,
                                                   mainResource, pathParamName)]

\* a || b || ...: the first key of keys that params sets, undefined when none is
RECURSIVE firstSet(_, _)
firstSet(keys, params) ==
  IF keys = <<>> THEN Undefined
  ELSE IF Head(keys) \in DOMAIN params THEN params[Head(keys)]
  ELSE firstSet(Tail(keys), params)

\* the backend call an emitted wrapper makes when it is run on params
runWrapper(implementation, params) ==
  Call(implementation.resource, implementation.method,
       [i \in 1..Len(implementation.ids) |-> firstSet(implementation.ids[i], params)],
       [k \in DOMAIN params \ implementation.omit |-> params[k]])

\* ------------------------------------------------------------------------
\* Tool handlers of the server
\* ------------------------------------------------------------------------
\* `Error calling Stripe API: ${error.message}\n\nStack: ${error.stack}`
errorText(error) == M.Error_calling \o error.message \o M.Stack \o error.stack

\* a tool result: content: [{ type: "text", text }]
textContent(text) == [type |-> "text", text |-> text]

NoReply == [type |-> "", text |-> <<>>]

\* mutant of invokeCatch: the reply does not carry the message of the error
invokeCatch_NoMessage(error) == textContent(M.Error_calling \o M.Stack)

\* the catch block of handleInvokeApiEndpointTool
invokeCatch(error) == textContent(errorText(error))

\* mutant of fallbackCatch: the message is not searched for "not found", every
\* error is reported as an error of the call
fallbackCatch_NoUnknownTool(name, error) == textContent(errorText(error))

\* mutant of fallbackCatch: an error that is not a not-found error is thrown on,
\* out of the handler, and no payload is returned
fallbackCatch_Rethrows(name, error) ==
  IF includes(error.message, M.not_found)
  THEN textContent(M.Unknown_tool \o name)
  ELSE NoReply

\* the catch block of handleFallbackToolInvocation
fallbackCatch(name, error) ==
  IF includes(error.message, M.not_found)
  THEN textContent(M.Unknown_tool \o name)
  ELSE textContent(errorText(error))

\* InvokeApiEndpointSchema.parse(args): operationId is required, parameters is optional
validArgs(args) == "operationId" \in DOMAIN args

\* validatedArgs.parameters || {}
parametersOf(args) == IF "parameters" \in DOMAIN args THEN args["parameters"] ELSE <<>>

\* the characters of the property names and HTTP methods of the description
chars ==
  [email |-> <<"e", "m", "a", "i", "l">>,
   customer |-> <<"c", "u", "s", "t", "o", "m", "e", "r">>,
   intent |-> <<"i", "n", "t", "e", "n", "t">>,
   subscription_exposed_id |-> <<"s", "u", "b", "s", "c", "r", "i", "p", "t", "i", "o", "n", "_",
                                 "e", "x", "p", "o", "s", "e", "d", "_", "i", "d">>,
   id |-> <<"i", "d">>,
   query |-> <<"q", "u", "e", "r", "y">>,
   path |-> <<"p", "a", "t", "h">>,
   get |-> <<"g", "e", "t">>,
   post |-> <<"p", "o", "s", "t">>,
   put |-> <<"p", "u", "t">>,
   patch |-> <<"p", "a", "t", "c", "h">>,
   delete |-> <<"d", "e", "l", "e", "t", "e">>]

\* handleListApiEndpointsTool: the count and the sorted operationIds, joined
handleListApiEndpointsTool(paths) ==
  textContent(M.Available \o numberToString(Len(listAllOperationIds(paths))) \o M.total
              \o joinWith(sort(listAllOperationIds(paths)), M.comma))

\* JSON.stringify(parameters, null, 2) at the nesting depth of the schema object
stringifyParameters(parameters) ==
  IF parameters = <<>> THEN J.empty_array
  ELSE J.array_open
       \o joinWith([i \in 1..Len(parameters) |->
                      J.param_name \o chars[parameters[i].name] \o J.param_in
                      \o chars[parameters[i].in] \o J.param_close],
                   J.array_comma)
       \o J.array_close

\* getOperationSchema with the example invocation, as JSON.stringify(..., null, 2)
\* writes it: description, requestBody and responses are absent from the
\* modelled description and take their defaults, required_parameters is
\* undefined and left out
stringifySchemaWithExample(operationId, found) ==
  J.operationId \o operationId \o J.path \o found.path
  \o J.method \o toUpperCase(chars[found.method])
  \o J.description_parameters \o stringifyParameters(found.operation.parameters)
  \o J.requestBody_example \o operationId \o J.example_note

\* the reply of handleGetApiEndpointSchemaTool once the operationId is looked up
schemaReply(operationIdToFind, found) ==
  IF ~found.found
  THEN textContent(M.Error_Operation \o operationIdToFind \o M.not_found_use)
  ELSE textContent(stringifySchemaWithExample(operationIdToFind, found))

\* handleGetApiEndpointSchemaTool: args?.operationId, the lookup, the reply
handleGetApiEndpointSchemaTool(paths, args) ==
  IF "operationId" \notin DOMAIN args \/ args["operationId"] = <<>>
  THEN textContent(M.schema_required)
  ELSE schemaReply(args["operationId"], findOperationById(paths, args["operationId"]))

\* ------------------------------------------------------------------------
\* Bounds and input sets
\* ------------------------------------------------------------------------
\* number of CallTool requests that can be in flight at once
MaxTasks == 2

\* number of word tokens of the operationIds given to the parser
MaxTokens == 3

Tasks == 1..MaxTasks

\* the value a caller supplies for each parameter key
valueOf ==
  [customer |-> "cus_1", email |-> "a@b.com", id |-> "id_1", intent |-> "seti_1",
   subscription_exposed_id |-> "sub_1"]

\* every operation object of the description, whatever its path and verb
AllOperations(paths) ==
  UNION {{paths[i].item[m] : m \in DOMAIN paths[i].item} : i \in 1..Len(paths)}

\* the operationIds callers ask for: every operationId of the description (also the
\* one of the nested path) and one the description does not have
RequestedOperationIds(paths) ==
  {o.operationId : o \in AllOperations(paths)} \cup {S_GetNothing}

\* the parameter keys a caller may set for an operationId: a body field, and the
\* identifier key (the path parameter the description declares, else id)
BagKeys(paths, operationId) ==
  LET declared == {pathParamNameOf(o.parameters) :
                     o \in {x \in AllOperations(paths) : x.operationId = operationId}} \ {""}
  IN  {"email"} \cup (IF declared = {} THEN {"id"} ELSE declared)

ParameterBags(paths, operationId) ==
  {[k \in S |-> valueOf[k]] : S \in SUBSET BagKeys(paths, operationId)}

\* what the backend answers
BackendResults == {J_result}

BackendErrorMessages == {M.No_such_customer, M.Resource_not_found_backend}

\* the word tokens and the inputs of the parser check
Tokens == {<<"C", "u", "s", "t", "o", "m", "e", "r", "s">>, <<"C", "u", "s", "t", "o", "m", "e", "r">>,
           <<"A", "c", "c", "o", "u", "n", "t">>, <<"S", "e", "t", "u", "p">>, <<"S", "s">>, <<"S">>}

TokenSequences == UNION {[1..n -> Tokens] : n \in 1..MaxTokens}

\* ------------------------------------------------------------------------
\* State
\* ------------------------------------------------------------------------
VARIABLES
  spec,      \* spec.paths of the loaded description: the entries in document order
  tasks,     \* the CallTool requests in flight, one record per handler run
  gen,       \* the run of the generator's main(): position, files written, report
  parseIn,   \* the operationId given to the parser test, with the tokens it is made of
  parseOut   \* what the test script and the server parser derive from it

vars == <<spec, tasks, gen, parseIn, parseOut>>

\* the operationIds and parameter bags of the requests
OperationIds == RequestedOperationIds(spec3)

Bags(operationId) == ParameterBags(spec3, operationId)

\* invokeStripeByOperationId on the loaded description, tabulated over the requests
Resolution ==
  [o \in OperationIds |-> [b \in Bags(o) |-> invokeStripeByOperationId(spec3, o, b)]]

\* the artifacts the generator writes for the loaded description, by operationId
Wrappers ==
  LET operations == listAllOperations(spec3)
  IN  [o \in {operations[i].operationId : i \in 1..Len(operations)} |->
         generateOperationWrapper(
           operations[CHOOSE i \in 1..Len(operations) : operations[i].operationId = o])]

IdleTask ==
  [pc |-> "idle", name |-> <<>>, args |-> <<>>, operationId |-> <<>>, parameters |-> <<>>,
   bag |-> <<>>, inv |-> NoResolution, ncalls |-> 0, caught |-> NoError, reply |-> NoReply]

NoParse == [isDetailOperation |-> FALSE, mainResource |-> <<>>]

\* main() not started: nothing listed, nothing written, nothing reported
GenStart ==
  [pc |-> "start", operations |-> <<>>, next |-> 1, files |-> <<>>, written |-> <<>>,
   exportStatements |-> <<>>, reported |-> <<>>]

Init ==
  /\ spec = spec3
  /\ tasks = [t \in Tasks |-> IdleTask]
  /\ gen = GenStart
  /\ parseIn = [verb |-> <<>>, tokens |-> <<>>, operationId |-> <<>>]
  /\ parseOut = [ran |-> FALSE, script |-> NoParse, server |-> NoParse,
                 reran |-> FALSE, again |-> NoParse]

\* the catch block of the handler that serves the tool name
handlerCatch(name, error) ==
  IF name = T_invoke_api_endpoint THEN invokeCatch(error) ELSE fallbackCatch(name, error)

\* the handler around the outcome inv of invokeStripeByOperationId, up to its
\* await: a throw is caught by the handler, a backend call suspends the handler
\* mutant of handlerAround: the backend call is issued a second time
handlerAround_CallsAgain(task, inv) ==
  IF inv.outcome = "throw"
  THEN [task EXCEPT !.pc = "done", !.inv = inv, !.caught = inv.error,
                    !.reply = handlerCatch(task.name, inv.error)]
  ELSE IF inv.outcome = "call"
  THEN [task EXCEPT !.pc = "await", !.inv = inv, !.ncalls = 2]
  ELSE [task EXCEPT !.pc = "done", !.inv = inv, !.reply = textContent(<<>>)]

handlerAround(task, inv) ==
  IF inv.outcome = "throw"
  THEN [task EXCEPT !.pc = "done", !.inv = inv, !.caught = inv.error,
                    !.reply = handlerCatch(task.name, inv.error)]
  ELSE IF inv.outcome = "call"
  THEN [task EXCEPT !.pc = "await", !.inv = inv, !.ncalls = 1]
  ELSE [task EXCEPT !.pc = "done", !.inv = inv, !.reply = textContent(<<>>)]

\* invokeStripeByOperationId(operationId, parameters) on the description paths:
\* read from the table where the request is tabulated, computed otherwise
resolve(paths, operationId, parameters) ==
  IF paths = spec3 /\ operationId \in DOMAIN Resolution
                   /\ parameters \in DOMAIN Resolution[operationId]
  THEN Resolution[operationId][parameters]
  ELSE invokeStripeByOperationId(paths, operationId, parameters)

\* mutant of parametersAfterInvoke: params is the caller's object itself, so
\* the delete of the identifier key takes the key out of the caller's bag
parametersAfterInvoke_NoCopy(parameters, inv) ==
  IF inv.outcome = "call" /\ inv.call.ids # <<>>
  THEN deleteKey(parameters, IF inv.pathParamName # "" THEN inv.pathParamName ELSE "id")
  ELSE parameters

\* the caller's parameters object after invokeStripeByOperationId ran to its
\* call or to its throw: params = { ...(parameters || {}) } is a new object, and
\* delete params[...] works on that object
parametersAfterInvoke(parameters, inv) == parameters

\* the caller's object as the invocation leaves it
withCallerBag(task) ==
  [task EXCEPT !.bag = parametersAfterInvoke(task.parameters, task.inv)]

\* the run of invokeStripeByOperationId inside a handler
startInvocation(paths, name, args, operationId, parameters) ==
  withCallerBag(
    handlerAround([IdleTask EXCEPT !.name = name, !.args = args, !.operationId = operationId,
                                   !.parameters = parameters],
                  resolve(paths, operationId, parameters)))

\* mutant of pathsAfterInvoke: the parameter descriptors of the operation that
\* was looked up are emptied in the description itself
pathsAfterInvoke_ClearsParameters(paths, operationId) ==
  [i \in 1..Len(paths) |->
     [paths[i] EXCEPT !.item =
        [m \in DOMAIN paths[i].item |->
           IF paths[i].item[m].operationId = operationId
           THEN [paths[i].item[m] EXCEPT !.parameters = <<>>]
           ELSE paths[i].item[m]]]]

\* spec.paths after invokeStripeByOperationId(operationId, ...): the lookup and
\* parameters?.find read the description, the delete works on the copy params
pathsAfterInvoke(paths, operationId) == paths

\* mutant of pathsAfterList: sort() works on the entries of the description
\* itself and leaves them in the order of their paths
pathsAfterList_SortsInPlace(paths) ==
  LET sorted == sort([i \in 1..Len(paths) |-> paths[i].path])
  IN  [i \in 1..Len(paths) |->
         paths[CHOOSE k \in 1..Len(paths) : paths[k].path = sorted[i]]]

\* spec.paths after handleListApiEndpointsTool: listAllOperationIds fills a new
\* array and sort() sorts that array
pathsAfterList(paths) == paths

\* CallTool "list-api-endpoints": handleListApiEndpointsTool, no await
HandleListApiEndpointsTool(t) ==
  /\ tasks[t].pc = "idle"
  /\ tasks' = [tasks EXCEPT ![t] =
                 [IdleTask EXCEPT !.pc = "done", !.name = T_list_api_endpoints,
                                  !.reply = handleListApiEndpointsTool(spec)]]
  /\ spec' = pathsAfterList(spec)
  /\ UNCHANGED <<gen, parseIn, parseOut>>

\* CallTool "get-api-endpoint-schema": handleGetApiEndpointSchemaTool, no await
HandleGetApiEndpointSchemaTool(t) ==
  /\ tasks[t].pc = "idle"
  /\ \E args \in {<<>>} \cup {[operationId |-> o] : o \in RequestedOperationIds(spec)} :
       tasks' = [tasks EXCEPT ![t] =
                   [IdleTask EXCEPT !.pc = "done", !.name = T_get_api_endpoint_schema,
                                    !.args = args,
                                    !.reply = handleGetApiEndpointSchemaTool(spec, args)]]
  /\ UNCHANGED <<spec, gen, parseIn, parseOut>>

\* CallTool "invoke-api-endpoint": handleInvokeApiEndpointTool up to its await
HandleInvokeApiEndpointTool(t) ==
  /\ tasks[t].pc = "idle"
  /\ \E args \in {<<>>}
               \cup {[operationId |-> o] : o \in OperationIds}
               \cup UNION {{[operationId |-> o, parameters |-> b] : b \in Bags(o)} :
                           o \in OperationIds} :
       IF ~validArgs(args)
       THEN /\ tasks' = [tasks EXCEPT ![t] =
                           [IdleTask EXCEPT !.pc = "done", !.name = T_invoke_api_endpoint,
                                            !.args = args, !.caught = newError(M.Required),
                                            !.reply = invokeCatch(newError(M.Required))]]
            /\ spec' = spec
       ELSE /\ tasks' = [tasks EXCEPT ![t] =
                           startInvocation(spec, T_invoke_api_endpoint, args,
                                           args["operationId"], parametersOf(args))]
            /\ spec' = pathsAfterInvoke(spec, args["operationId"])
  /\ UNCHANGED <<gen, parseIn, parseOut>>

\* CallTool with any other name: handleFallbackToolInvocation up to its await
HandleFallbackToolInvocation(t) ==
  /\ tasks[t].pc = "idle"
  /\ \E name \in OperationIds :
       \E args \in Bags(name) :
         /\ tasks' = [tasks EXCEPT ![t] = startInvocation(spec, name, args, name, args)]
         /\ spec' = pathsAfterInvoke(spec, name)
  /\ UNCHANGED <<gen, parseIn, parseOut>>

\* the awaited backend call resolves: the handler returns JSON.stringify(result)
BackendResolves(t) ==
  /\ tasks[t].pc = "await"
  /\ \E result \in BackendResults :
       tasks' = [tasks EXCEPT ![t].pc = "done", ![t].reply = textContent(result)]
  /\ UNCHANGED <<spec, gen, parseIn, parseOut>>

\* the awaited backend call rejects: the catch block of the handler replies
BackendRejects(t) ==
  /\ tasks[t].pc = "await"
  /\ \E message \in BackendErrorMessages :
       tasks' = [tasks EXCEPT ![t].pc = "done",
                              ![t].caught = newError(message),
                              ![t].reply = handlerCatch(tasks[t].name, newError(message))]
  /\ UNCHANGED <<spec, gen, parseIn, parseOut>>

\* the CallTool handler returns the result to the protocol layer
Respond(t) ==
  /\ tasks[t].pc = "done"
  /\ tasks' = [tasks EXCEPT ![t] = IdleTask]
  /\ UNCHANGED <<spec, gen, parseIn, parseOut>>

Next ==
  \/ \E t \in Tasks : HandleListApiEndpointsTool(t)
  \/ \E t \in Tasks : HandleGetApiEndpointSchemaTool(t)
  \/ \E t \in Tasks : HandleInvokeApiEndpointTool(t)
  \/ \E t \in Tasks : HandleFallbackToolInvocation(t)
  \/ \E t \in Tasks : BackendResolves(t)
  \/ \E t \in Tasks : BackendRejects(t)
  \/ \E t \in Tasks : Respond(t)

Spec == Init /\ [][Next]_vars

\* ------------------------------------------------------------------------
\* The parser test script
\* ------------------------------------------------------------------------
InitParse ==
  /\ spec = spec3
  /\ tasks = [t \in Tasks |-> IdleTask]
  /\ gen = GenStart
  /\ \E verb \in {verbPrefixes[i] : i \in 1..Len(verbPrefixes)} :
       \E tokens \in TokenSequences :
         parseIn = [verb |-> verb, tokens |-> tokens, operationId |-> verb \o join(tokens)]
  /\ parseOut = [ran |-> FALSE, script |-> NoParse, server |-> NoParse,
                 reran |-> FALSE, again |-> NoParse]

\* testOperationId(operationId) of the script, and the same operationId
\* through the parsing block of the server
TestOperationId ==
  /\ ~parseOut.ran
  /\ parseOut' = [ran |-> TRUE,
                  script |-> [isDetailOperation |-> testOperationId(parseIn.operationId).isDetailOperation,
                              mainResource |-> testOperationId(parseIn.operationId).mainResource],
                  server |-> [isDetailOperation |-> parseOperationId(parseIn.operationId).isDetailOperation,
                              mainResource |-> parseOperationId(parseIn.operationId).mainResource],
                  reran |-> FALSE, again |-> NoParse]
  /\ UNCHANGED <<spec, tasks, gen, parseIn>>

\* the parsing block of the server once more, on the mainResource it derived
ReparseMainResource ==
  /\ parseOut.ran
  /\ ~parseOut.reran
  /\ parseOut' = [parseOut EXCEPT
                    !.reran = TRUE,
                    !.again = [isDetailOperation |->
                                 parseOperationId(parseOut.server.mainResource).isDetailOperation,
                               mainResource |->
                                 parseOperationId(parseOut.server.mainResource).mainResource]]
  /\ UNCHANGED <<spec, tasks, gen, parseIn>>

NextParse == TestOperationId \/ ReparseMainResource

SpecParse == InitParse /\ [][NextParse]_vars

\* ------------------------------------------------------------------------
\* The generator run and the enumeration tools over varying descriptions
\* ------------------------------------------------------------------------
\* number of path entries of the descriptions given to the generator
MaxPaths == 3

\* the path entries the descriptions are made of: a collection and a detail
\* path, a nested path, a path whose operationId another path has too, and a
\* path with an operation under a verb that httpMethods does not list
PathPool ==
  {spec3[i] : i \in {1, 2, 3, 5, 6}}
  \cup {[path |-> P_customer_list, item |-> ("get" :> Operation(Id.GetCustomers, <<>>))]}

\* the descriptions: up to MaxPaths different path entries in any document order
Descriptions ==
  UNION {{d \in [1..n -> PathPool] : \A i, j \in 1..n : d[i] = d[j] => i = j} :
         n \in 0..MaxPaths}

InitEmit ==
  /\ spec \in Descriptions
  /\ tasks = [t \in Tasks |-> IdleTask]
  /\ gen = GenStart
  /\ parseIn = [verb |-> <<>>, tokens |-> <<>>, operationId |-> <<>>]
  /\ parseOut = [ran |-> FALSE, script |-> NoParse, server |-> NoParse,
                 reran |-> FALSE, again |-> NoParse]

\* `${operation.operationId}.ts`
fileName(operationId) == operationId \o F_ts

\* mutant of exportStatement: the braces are written without the inner spaces
exportStatement_NoSpaces(operationId) ==
  <<"e", "x", "p", "o", "r", "t", " ", "{">> \o operationId
  \o <<"}", " ", "f", "r", "o", "m", " ", "\"", ".", "/">> \o operationId \o M_export_close

\* `export { ${operation.operationId} } from "./${operation.operationId}.js";`
exportStatement(operationId) ==
  M_export_open \o operationId \o M_export_from \o operationId \o M_export_close

\* the text of index.ts: the header lines and the sorted export statements
indexContent(exportStatements) ==
  M_index_header \o joinWith(sort(exportStatements), M_newline) \o M_newline

\* writeFileSync(filePath, content): the file is created or replaced
writeFileSync(files, name, content) ==
  [f \in DOMAIN files \cup {name} |-> IF f = name THEN content ELSE files[f]]

\* main(): operations = listAllOperations(), and the count it logs
MainListOperations ==
  /\ gen.pc = "start"
  /\ gen' = [gen EXCEPT !.pc = "loop", !.operations = listAllOperations(spec), !.next = 1]
  /\ UNCHANGED <<spec, tasks, parseIn, parseOut>>

\* mutant of mainIteration: an operation whose file exists already is passed over
mainIteration_SkipsExisting(g) ==
  IF fileName(g.operations[g.next].operationId) \in DOMAIN g.files
  THEN [g EXCEPT !.next = g.next + 1]
  ELSE [g EXCEPT
          !.files = writeFileSync(g.files, fileName(g.operations[g.next].operationId),
                                  [code |-> generateOperationWrapper(g.operations[g.next])]),
          !.written = Append(g.written, fileName(g.operations[g.next].operationId)),
          !.exportStatements = Append(g.exportStatements,
                                      exportStatement(g.operations[g.next].operationId)),
          !.next = g.next + 1]

\* main(): one iteration of the loop over operations: the wrapper file is
\* written and its export statement is pushed
mainIteration(g) ==
  [g EXCEPT
     !.files = writeFileSync(g.files, fileName(g.operations[g.next].operationId),
                             [code |-> generateOperationWrapper(g.operations[g.next])]),
     !.written = Append(g.written, fileName(g.operations[g.next].operationId)),
     !.exportStatements = Append(g.exportStatements,
                                 exportStatement(g.operations[g.next].operationId)),
     !.next = g.next + 1]

MainWriteOperation ==
  /\ gen.pc = "loop"
  /\ gen.next <= Len(gen.operations)
  /\ gen' = mainIteration(gen)
  /\ UNCHANGED <<spec, tasks, parseIn, parseOut>>

\* main(): after the loop index.ts is written and the count is logged
MainWriteIndex ==
  /\ gen.pc = "loop"
  /\ gen.next > Len(gen.operations)
  /\ gen' = [gen EXCEPT
               !.pc = "done",
               !.files = writeFileSync(gen.files, F_index,
                                       [text |-> indexContent(gen.exportStatements)]),
               !.written = Append(gen.written, F_index),
               !.reported = numberToString(Len(gen.operations))]
  /\ UNCHANGED <<spec, tasks, parseIn, parseOut>>

\* the generator run, and one caller of the two enumeration tools of the server
\* started on the same description
NextEmit ==
  \/ MainListOperations
  \/ MainWriteOperation
  \/ MainWriteIndex
  \/ HandleListApiEndpointsTool(1)
  \/ HandleGetApiEndpointSchemaTool(1)
  \/ Respond(1)

SpecEmit == InitEmit /\ [][NextEmit]_vars

\* ------------------------------------------------------------------------
\* Properties
\* ------------------------------------------------------------------------
\* the handler run of task t has called invokeStripeByOperationId
Invoked(t) == tasks[t].pc # "idle" /\ tasks[t].operationId # <<>>

\* the generic action a backend method stands for
ActionKind(method) ==
  CASE method = "list" -> "List"
    [] method = "retrieve" -> "Retrieve"
    [] method = "create" -> "Create"
    [] method = "update" -> "Update"
    [] method = "del" -> "Delete"
    [] method = "cancel" -> "Cancel"
    [] OTHER -> "None"

\* the action table: verb x singleton x detail -> action
TableAction(verb, isSingleton, isDetail) ==
  CASE verb = "get" -> (IF isSingleton \/ isDetail THEN "Retrieve" ELSE "List")
    [] verb = "post" -> (IF isDetail THEN "Update" ELSE "Create")
    [] verb \in {"put", "patch"} -> "Update"
    [] verb = "delete" -> "Delete"
    [] OTHER -> "None"

\* method is the action of the table, where a delete may be a Cancel on subscriptions
FollowsTable(verb, isSingleton, isDetail, resource, method) ==
  \/ ActionKind(method) = TableAction(verb, isSingleton, isDetail)
  \/ (verb = "delete" /\ resource = S_subscriptions /\ ActionKind(method) = "Cancel")

\* the identifier key of an operation: its declared path parameter, else the literal id
IdentifierKey(pathParamName) == IF pathParamName # "" THEN pathParamName ELSE "id"

C2_DeleteOnSubscriptionsCancels ==
  \A t \in Tasks :
    (Invoked(t) /\ tasks[t].inv.found /\ tasks[t].inv.method = "delete") =>
      /\ (tasks[t].inv.outcome = "call") =>
           ActionKind(tasks[t].inv.call.method) =
             (IF tasks[t].inv.mainResource = S_subscriptions THEN "Cancel" ELSE "Delete")
      /\ (tasks[t].operationId \in DOMAIN Wrappers) =>
           LET w == Wrappers[tasks[t].operationId]
           IN  ActionKind(w.implementation.method) =
                 (IF w.mainResource = S_subscriptions THEN "Cancel" ELSE "Delete")

\* C3: the body of a backend call that takes an identifier, or that is made for an
\* operation with a declared path parameter, never has the identifier key: it is the
\* parameter bag without that key, whether or not the bag had it. The same holds of
\* the call the emitted wrapper makes on that bag.
C3_BodyWithoutIdentifierKey ==
  \A t \in Tasks :
    (Invoked(t) /\ tasks[t].inv.found) =>
      /\ (tasks[t].inv.outcome = "call"
          /\ (tasks[t].inv.call.ids # <<>> \/ tasks[t].inv.pathParamName # "")) =>
           LET key == IdentifierKey(tasks[t].inv.pathParamName)
               body == tasks[t].inv.call.options
           IN  /\ key \notin DOMAIN body
               /\ DOMAIN body = DOMAIN tasks[t].parameters \ {key}
               /\ \A k \in DOMAIN body : body[k] = tasks[t].parameters[k]
               /\ tasks[t].inv.call.ids =
                    <<IF key \in DOMAIN tasks[t].parameters THEN tasks[t].parameters[key] ELSE Undefined>>
      /\ (tasks[t].operationId \in DOMAIN Wrappers) =>
           LET w == Wrappers[tasks[t].operationId]
               c == runWrapper(w.implementation, tasks[t].parameters)
               key == IdentifierKey(w.pathParamName)
           IN  (c.ids # <<>> \/ w.pathParamName # "") =>
                 /\ key \notin DOMAIN c.options
                 /\ DOMAIN c.options = DOMAIN tasks[t].parameters \ {key}
                 /\ \A k \in DOMAIN c.options : c.options[k] = tasks[t].parameters[k]

\* C3 witness: the bag {customer: "cus_1", email: "a@b.com"} was split into the
\* identifier "cus_1" and the body {email: "a@b.com"}
C3_Witness ==
  \E t \in Tasks :
    /\ tasks[t].pc = "await"
    /\ tasks[t].inv.pathParamName = "customer"
    /\ DOMAIN tasks[t].parameters = {"customer", "email"}
    /\ tasks[t].inv.call.ids = <<"cus_1">>
    /\ DOMAIN tasks[t].inv.call.options = {"email"}

\* C4: the backend is never called with an undefined identifier: an invocation whose
\* action takes an identifier that the bag does not supply fails before the call.
C4_NoCallWithUndefinedIdentifier ==
  \A t \in Tasks :
    (Invoked(t) /\ tasks[t].inv.outcome = "call") =>
      \A i \in 1..Len(tasks[t].inv.call.ids) : tasks[t].inv.call.ids[i] # Undefined

\* the parser result the claim derives from the word tokens of an operationId
DerivedFromTokens(tokens) ==
  LET first == toLowerCase(tokens[1])
      firstSingular == IF Len(first) > 0 /\ first[Len(first)] = "s"
                       THEN SubSeq(first, 1, Len(first) - 1) ELSE first
      isDetail == Len(tokens) > 1 /\ firstSingular = toLowerCase(tokens[2])
  IN  [isDetailOperation |-> isDetail,
       mainResource |-> IF isDetail THEN first
                        ELSE first \o join([i \in 1..(Len(tokens) - 1) |-> tokens[i + 1]])]

\* C5: for an operationId made of a verb and capitalized tokens, the server parser
\* derives isDetailOperation = (more than one token and first token lower-cased with
\* one trailing s stripped = second token lower-cased) and the resource name
\* candidate of the tokens; the test script derives the same.
C5_ParserDerivation ==
  parseOut.ran =>
    /\ parseOut.server = DerivedFromTokens(parseIn.tokens)
    /\ parseOut.script = parseOut.server

\* C5 witness: Customers + Customer was parsed as a detail operation on customers
C5_Witness ==
  /\ parseOut.ran
  /\ Len(parseIn.tokens) = 2
  /\ parseOut.server.isDetailOperation
  /\ parseOut.server.mainResource = S_customers

\* C6: runtime invocation and the emitted wrapper decide alike for every operation of
\* the Schema Index: same resource name, same singleton and detail flags, and the
\* same backend call on the same parameter bag.
C6_RuntimeAndEmissionAgree ==
  \A t \in Tasks :
    (Invoked(t) /\ tasks[t].inv.found) =>
      /\ tasks[t].operationId \in DOMAIN Wrappers
      /\ LET w == Wrappers[tasks[t].operationId]
         IN  /\ tasks[t].inv.mainResource = w.mainResource
             /\ tasks[t].inv.isSingleton = w.isSingleton
             /\ tasks[t].inv.isDetailOperation = w.isDetailPath
             /\ tasks[t].inv.outcome = "call"
             /\ tasks[t].inv.call = runWrapper(w.implementation, tasks[t].parameters)

\* C7: GetAccount resolves to the singleton account view and selects Retrieve: the
\* runtime and the emitted wrapper call retrieve with the parameter bag only.
C7_GetAccountRetrieves ==
  \A t \in Tasks :
    (Invoked(t) /\ tasks[t].operationId = S_GetAccount) =>
      /\ tasks[t].inv.found
      /\ tasks[t].inv.isSingleton
      /\ tasks[t].inv.outcome = "call"
      /\ tasks[t].inv.call = Call(S_account, "retrieve", <<>>, tasks[t].parameters)
      /\ S_GetAccount \in DOMAIN Wrappers
      /\ Wrappers[S_GetAccount].isSingleton
      /\ runWrapper(Wrappers[S_GetAccount].implementation, tasks[t].parameters)
           = Call(specialCaseNames.accounts, "retrieve", <<>>, tasks[t].parameters)

\* C7 witness: a GetAccount invocation with a non-empty bag is awaiting its call
C7_Witness ==
  \E t \in Tasks :
    /\ tasks[t].pc = "await"
    /\ tasks[t].operationId = S_GetAccount
    /\ DOMAIN tasks[t].parameters # {}

\* C8: isSingleton is true exactly for the resources balance and account and for the
\* GetAccount view of accounts (get, non-detail), at runtime and in the generator.
C8_SingletonExactlyTheKnownOnes ==
  \A t \in Tasks :
    (Invoked(t) /\ tasks[t].inv.found) =>
      /\ tasks[t].inv.isSingleton <=>
           \/ tasks[t].inv.mainResource \in {S_balance, S_account}
           \/ /\ tasks[t].inv.mainResource = specialCaseNames.accounts
              /\ tasks[t].inv.method = "get"
              /\ ~tasks[t].inv.isDetailOperation
              /\ tasks[t].operationId = S_GetAccount
      /\ (tasks[t].operationId \in DOMAIN Wrappers) =>
           LET w == Wrappers[tasks[t].operationId]
           IN  w.isSingleton <=>
                 \/ w.mainResource \in {S_balance, S_account}
                 \/ /\ w.mainResource = specialCaseNames.accounts
                    /\ w.method = "get"
                    /\ ~w.isDetailPath
                    /\ w.operationId = S_GetAccount

\* C9 (as stated): an operation resolved as a singleton only ever selects Retrieve or
\* Update, at runtime and in its emitted wrapper.
C9_SingletonOnlyRetrievesOrUpdates ==
  \A t \in Tasks :
    (Invoked(t) /\ tasks[t].inv.found) =>
      /\ (tasks[t].inv.outcome = "call" /\ tasks[t].inv.isSingleton) =>
           ActionKind(tasks[t].inv.call.method) \in {"Retrieve", "Update"}
      /\ (tasks[t].operationId \in DOMAIN Wrappers /\ Wrappers[tasks[t].operationId].isSingleton) =>
           ActionKind(Wrappers[tasks[t].operationId].implementation.method) \in {"Retrieve", "Update"}

\* C9 (amended): an operation resolved as a singleton never selects List: a get on it
\* selects Retrieve with the parameter bag only, and the other verbs select what
\* they select on any resource (Create for a non-detail post, Delete for a delete).
C9_SingletonNeverLists ==
  \A t \in Tasks :
    (Invoked(t) /\ tasks[t].inv.found) =>
      /\ (tasks[t].inv.outcome = "call" /\ tasks[t].inv.isSingleton) =>
           /\ ActionKind(tasks[t].inv.call.method) \in {"Retrieve", "Update", "Create", "Delete"}
           /\ (tasks[t].inv.method = "get") =>
                (tasks[t].inv.call.method = "retrieve" /\ tasks[t].inv.call.ids = <<>>)
      /\ (tasks[t].operationId \in DOMAIN Wrappers /\ Wrappers[tasks[t].operationId].isSingleton) =>
           LET w == Wrappers[tasks[t].operationId]
           IN  /\ ActionKind(w.implementation.method) \in {"Retrieve", "Update", "Create", "Delete"}
               /\ (w.method = "get") =>
                    (w.implementation.method = "retrieve" /\ w.implementation.ids = <<>>)

\* C9 witness: a post on the singleton account is awaiting the create it selected
C9_Witness ==
  \E t \in Tasks :
    /\ tasks[t].pc = "await"
    /\ tasks[t].inv.isSingleton
    /\ tasks[t].inv.mainResource = S_account
    /\ tasks[t].inv.call.method = "create"

\* C10 (as stated): invoking an operationId that is absent from the Schema Index
\* makes no backend call, and the reply carries the OperationNotFound message
\* verbatim, through invoke-api-endpoint and through the tool-name fallback.
C10_NotFoundMessageVerbatim ==
  \A t \in Tasks :
    (Invoked(t) /\ ~tasks[t].inv.found) =>
      /\ tasks[t].pc = "done"
      /\ tasks[t].ncalls = 0
      /\ includes(tasks[t].reply.text, operationNotFoundMessage(tasks[t].operationId))

\* C10 (amended): invoking an operationId that is absent from the Schema Index makes
\* no backend call and is answered at once; through invoke-api-endpoint the reply is
\* "Error calling Stripe API: " followed by the OperationNotFound message verbatim
\* (and the trace); through the tool-name fallback the reply is "Unknown tool: <name>".
C10_NotFoundSurfaced ==
  \A t \in Tasks :
    (Invoked(t) /\ ~tasks[t].inv.found) =>
      /\ tasks[t].pc = "done"
      /\ tasks[t].ncalls = 0
      /\ (tasks[t].name = T_invoke_api_endpoint) =>
           startsWith(tasks[t].reply.text,
                      M.Error_calling \o operationNotFoundMessage(tasks[t].operationId))
      /\ (tasks[t].name # T_invoke_api_endpoint) =>
           tasks[t].reply.text = M.Unknown_tool \o tasks[t].name

\* C10 witness: invoke-api-endpoint was asked for an operationId that is not indexed
C10_Witness ==
  \E t \in Tasks :
    /\ tasks[t].pc = "done"
    /\ tasks[t].name = T_invoke_api_endpoint
    /\ tasks[t].operationId = S_GetNothing
    /\ ~tasks[t].inv.found

\* C11: when the parsed resource name is no capability of the backend, the
\* invocation ends with the ResourceNotFound error, no backend call is made, and
\* the reply to the caller names the resource and the operationId, through
\* invoke-api-endpoint and through the tool-name fallback.
C11_ResourceNotFoundSurfaced ==
  \A t \in Tasks :
    (Invoked(t) /\ tasks[t].inv.found /\ tasks[t].inv.mainResource \notin stripeResources) =>
      /\ tasks[t].pc = "done"
      /\ tasks[t].ncalls = 0
      /\ tasks[t].caught.message =
           resourceNotFoundMessage(tasks[t].inv.mainResource, tasks[t].operationId)
      /\ includes(tasks[t].reply.text, tasks[t].inv.mainResource)
      /\ includes(tasks[t].reply.text, tasks[t].operationId)

\* C12: when the backend call itself fails, the reply to the caller carries the
\* message and the trace of the backend's error, through invoke-api-endpoint and
\* through the tool-name fallback, whatever the message says.
C12_BackendErrorCarried ==
  \A t \in Tasks :
    (tasks[t].pc = "done" /\ tasks[t].ncalls = 1 /\ tasks[t].caught # NoError) =>
      /\ includes(tasks[t].reply.text, tasks[t].caught.message)
      /\ includes(tasks[t].reply.text, tasks[t].caught.stack)

\* the operationIds of the operations that sit on a recognized path shape under
\* a verb outside httpMethods
UnsupportedVerbOperationIds(paths) ==
  UNION {{paths[i].item[m].operationId :
            m \in DOMAIN paths[i].item \ {httpMethods[k] : k \in 1..Len(httpMethods)}} :
         i \in {j \in 1..Len(paths) :
                  topLevelRegex(paths[j].path) \/ detailLevelRegex(paths[j].path)}}

\* C13: an operation under a verb outside {get, post, put, patch, delete} on a
\* recognized path shape is not skipped: invoking it fails at once, without a
\* backend call, with an error of its own (not the not-found error of an absent
\* operationId), the enumeration of list-api-endpoints names it or fails, and no
\* invocation returns an undefined result because no verb branch matched.
C13_UnsupportedVerbFailsFast ==
  /\ \A t \in Tasks :
       (Invoked(t) /\ tasks[t].operationId \in UnsupportedVerbOperationIds(spec)) =>
         /\ tasks[t].pc = "done"
         /\ tasks[t].ncalls = 0
         /\ tasks[t].caught # NoError
         /\ tasks[t].caught.message # operationNotFoundMessage(tasks[t].operationId)
  /\ \A t \in Tasks :
       (tasks[t].pc = "done" /\ tasks[t].name = T_list_api_endpoints) =>
         \A o \in UnsupportedVerbOperationIds(spec) :
           \/ ~startsWith(tasks[t].reply.text, M.Available)
           \/ includes(tasks[t].reply.text, o)
  /\ \A t \in Tasks : Invoked(t) => tasks[t].inv.outcome # "return"

\* C14: every tool call ends with a structured payload: a finished call of any
\* tool, for any operationId (indexed or not) and any parameter bag, has a text
\* content; it is the backend's result when nothing was thrown, and a text
\* carrying a message (the thrown message after "Error calling Stripe API: ", or
\* "Unknown tool: <name>") when argument validation, lookup, resolution or the
\* backend call threw.
C14_AlwaysStructuredPayload ==
  \A t \in Tasks :
    /\ tasks[t].pc \in {"idle", "await", "done"}
    /\ (tasks[t].pc = "done") =>
         /\ tasks[t].reply.type = "text"
         /\ (tasks[t].caught = NoError /\ Invoked(t)) => tasks[t].reply.text \in BackendResults
         /\ (tasks[t].caught = NoError /\ ~Invoked(t)) => tasks[t].reply.text # <<>>
         /\ (tasks[t].caught # NoError) =>
              \/ tasks[t].reply.text = errorText(tasks[t].caught)
              \/ tasks[t].reply.text = M.Unknown_tool \o tasks[t].name

\* C14 witness: a fallback call whose backend call failed has replied with the
\* error payload, and a call whose arguments did not validate has replied too
C14_Witness ==
  /\ \E t \in Tasks :
       /\ tasks[t].pc = "done"
       /\ tasks[t].name = Id.GetCustomers
       /\ tasks[t].ncalls = 1
       /\ tasks[t].caught.message = M.No_such_customer
  /\ \E t \in Tasks :
       /\ tasks[t].pc = "done"
       /\ tasks[t].name = T_invoke_api_endpoint
       /\ tasks[t].caught.message = M.Required

\* the two path shapes in the words of the specification: /v1/<segment> and
\* /v1/<segment>/{<name>}, stated over the positions of the path's characters
CollectionShape(path) ==
  /\ Len(path) > 4
  /\ SubSeq(path, 1, 4) = <<"/", "v", "1", "/">>
  /\ \A k \in 5..Len(path) : path[k] # "/"

DetailShape(path) ==
  /\ Len(path) > 4
  /\ SubSeq(path, 1, 4) = <<"/", "v", "1", "/">>
  /\ \E j \in 6..Len(path) :
       /\ path[j] = "/"
       /\ \A k \in 5..(j - 1) : path[k] # "/"
       /\ Len(path) >= j + 3
       /\ path[j + 1] = "{"
       /\ path[Len(path)] = "}"
       /\ \A k \in (j + 2)..(Len(path) - 1) : path[k] # "}"

\* the operationIds that occur in the description only on paths of another
\* shape than the collection shape and the detail shape
HiddenOperationIds(paths) ==
  LET recognized == {i \in 1..Len(paths) :
                       CollectionShape(paths[i].path) \/ DetailShape(paths[i].path)}
      idsOf(i) == {paths[i].item[m].operationId : m \in DOMAIN paths[i].item}
  IN  UNION {idsOf(i) : i \in (1..Len(paths)) \ recognized}
      \ UNION {idsOf(i) : i \in recognized}

\* C15: an operationId that occurs only on a path of another shape than
\* ^/v1/[^/]+$ and ^/v1/[^/]+/\{[^}]+\}$ is not in the reply of
\* list-api-endpoints, is answered not-found by the lookup of
\* get-api-endpoint-schema, and is not enumerated by the generator (no operation,
\* no file, no export statement); every operation the generator enumerates sits
\* on a path of one of the two shapes.
C15_OnlyRecognizedShapesVisible ==
  /\ \A o \in HiddenOperationIds(spec) :
       /\ \A t \in Tasks :
            /\ (tasks[t].pc = "done" /\ tasks[t].name = T_list_api_endpoints) =>
                 ~includes(tasks[t].reply.text, o)
            /\ (tasks[t].pc = "done" /\ tasks[t].name = T_get_api_endpoint_schema
                  /\ tasks[t].args = [operationId |-> o]) =>
                 tasks[t].reply.text = M.Error_Operation \o o \o M.not_found_use
       /\ \A i \in 1..Len(gen.operations) : gen.operations[i].operationId # o
       /\ fileName(o) \notin DOMAIN gen.files
       /\ \A i \in 1..Len(gen.exportStatements) : gen.exportStatements[i] # exportStatement(o)
  /\ \A i \in 1..Len(gen.operations) :
       \/ CollectionShape(gen.operations[i].path)
       \/ DetailShape(gen.operations[i].path)

\* C15 witness: the description has the nested path next to a recognized one, the
\* generator has finished, and the lookup of the nested operationId has replied
C15_Witness ==
  /\ Id.GetCustomersCustomerSources \in HiddenOperationIds(spec)
  /\ gen.pc = "done"
  /\ gen.operations # <<>>
  /\ tasks[1].pc = "done"
  /\ tasks[1].name = T_get_api_endpoint_schema
  /\ tasks[1].args = [operationId |-> Id.GetCustomersCustomerSources]

\* C16: one tool invocation makes at most one backend call: none when the
\* resolution fails or the tool is not an invocation, exactly one when the
\* resolution succeeds, and a rejected call is not issued again.
C16_AtMostOneBackendCall ==
  \A t \in Tasks :
    /\ tasks[t].ncalls \in {0, 1}
    /\ tasks[t].pc = "await" => tasks[t].ncalls = 1
    /\ tasks[t].name \in {T_list_api_endpoints, T_get_api_endpoint_schema} =>
         tasks[t].ncalls = 0
    /\ (Invoked(t) /\ tasks[t].inv.outcome = "throw") => tasks[t].ncalls = 0
    /\ (Invoked(t) /\ tasks[t].inv.outcome = "call") => tasks[t].ncalls = 1
    /\ (tasks[t].pc = "done" /\ tasks[t].inv = NoResolution) => tasks[t].ncalls = 0

\* C16 witness: a backend call was rejected and the invocation has finished with
\* that single call
C16_Witness ==
  \E t \in Tasks :
    /\ tasks[t].pc = "done"
    /\ tasks[t].inv.outcome = "call"
    /\ tasks[t].caught # NoError
    /\ tasks[t].ncalls = 1

\* C17: an invocation that fails (invalid arguments, operation not found,
\* resource not found, backend rejection) leaves the description as it was
\* loaded, and every invocation resolves as it does on the loaded description,
\* whatever other invocations have failed before it or beside it.
C17_FailedInvocationLeavesIndex ==
  /\ (\E t \in Tasks : tasks[t].pc = "done" /\ tasks[t].caught # NoError) => spec = spec3
  /\ \A t \in Tasks :
       Invoked(t) =>
         tasks[t].inv = resolve(spec3, tasks[t].operationId, tasks[t].parameters)

\* C17 witness: one invocation has failed in its resolution while another, taken
\* on the same description, has resolved to a backend call
C17_Witness ==
  \E t, u \in Tasks :
    /\ tasks[t].pc = "done"
    /\ Invoked(t)
    /\ tasks[t].inv.outcome = "throw"
    /\ tasks[t].caught # NoError
    /\ Invoked(u)
    /\ tasks[u].inv.outcome = "call"

\* C18: invocations in flight together share no mutable state: a step of one
\* invocation leaves the description and the record of every other invocation
\* as they were, and the resolution an invocation holds is the one of its own
\* operationId and parameters.
C18_NoSharedMutableState ==
  [][ /\ spec' = spec
      /\ \A t \in Tasks :
           tasks'[t] # tasks[t] => \A u \in Tasks \ {t} : tasks'[u] = tasks[u]
      /\ \A t \in Tasks :
           (tasks'[t].pc # "idle" /\ tasks'[t].operationId # <<>>) =>
             tasks'[t].inv = resolve(spec3, tasks'[t].operationId, tasks'[t].parameters)
    ]_vars

\* C18 witness: two invocations of different operations await their backend
\* calls at the same time
C18_Witness ==
  \E t, u \in Tasks :
    /\ t # u
    /\ tasks[t].pc = "await"
    /\ tasks[u].pc = "await"
    /\ tasks[t].operationId # tasks[u].operationId

\* the operationIds of the enumerated operations are pairwise different
UniqueOperationIds(operations) ==
  \A i, j \in 1..Len(operations) :
    operations[i].operationId = operations[j].operationId => i = j

\* the number of places where sub occurs in text
occurrences(text, sub) ==
  Cardinality({i \in 0..(Len(text) - Len(sub)) : SubSeq(text, i + 1, i + Len(sub)) = sub})

\* C19: when the generator has finished it has written one wrapper file for
\* each enumerated operation, in turn, and then the index once; the count it
\* reports is the number of wrapper files written. When the operationIds are
\* pairwise different, the directory holds one file per operation with that
\* operation's wrapper (none replaced by another's) and the index text has
\* exactly one export statement for each operation.
C19_OneArtifactPerOperation ==
  gen.pc = "done" =>
    /\ Len(gen.written) = Len(gen.operations) + 1
    /\ \A i \in 1..Len(gen.operations) :
         gen.written[i] = fileName(gen.operations[i].operationId)
    /\ gen.written[Len(gen.written)] = F_index
    /\ gen.reported =
         numberToString(Cardinality({i \in 1..Len(gen.written) : gen.written[i] # F_index}))
    /\ UniqueOperationIds(gen.operations) =>
         /\ Cardinality(DOMAIN gen.files) = Len(gen.operations) + 1
         /\ \A i \in 1..Len(gen.operations) :
              /\ fileName(gen.operations[i].operationId) \in DOMAIN gen.files
              /\ gen.files[fileName(gen.operations[i].operationId)] =
                   [code |-> generateOperationWrapper(gen.operations[i])]
              /\ occurrences(gen.files[F_index].text,
                             exportStatement(gen.operations[i].operationId)) = 1
         /\ occurrences(gen.files[F_index].text, <<"e", "x", "p", "o", "r", "t", " ">>) =
              Len(gen.operations)

\* C19 witness: the generator has finished on a description with at least three
\* operations of pairwise different operationIds
C19_Witness ==
  /\ gen.pc = "done"
  /\ Len(gen.operations) >= 3
  /\ UniqueOperationIds(gen.operations)

\* the operationIds of the generator's operations in ascending order of their
\* UTF-16 code units: the id at place k is the one with k - 1 ids before it
InOrder(operations) ==
  LET ids == [i \in 1..Len(operations) |-> operations[i].operationId]
      place(i) == 1 + Cardinality({j \in 1..Len(ids) :
                                     \/ stringLess(ids[j], ids[i])
                                     \/ ids[j] = ids[i] /\ j < i})
  IN  [k \in 1..Len(ids) |-> ids[CHOOSE i \in 1..Len(ids) : place(i) = k]]

\* C20: on one description, the reply of list-api-endpoints names the
\* operationIds in ascending order, the index written by the generator holds
\* the export statements in ascending order, and both follow the same sequence
\* of operationIds, the ascending sequence of the enumerated operations.
C20_SameSortedSequence ==
  LET ids == InOrder(gen.operations)
  IN  /\ gen.pc = "done" =>
           gen.files[F_index].text =
             M_index_header
             \o joinWith([k \in 1..Len(ids) |-> exportStatement(ids[k])], M_newline)
             \o M_newline
      /\ \A t \in Tasks :
           (gen.pc = "done" /\ tasks[t].pc = "done" /\ tasks[t].name = T_list_api_endpoints) =>
             tasks[t].reply.text =
               M.Available \o numberToString(Len(ids)) \o M.total \o joinWith(ids, M.comma)

\* C20 witness: the generator has finished and the list tool has replied on a
\* description whose operations are not in ascending order as documented, one
\* operationId being the beginning of another
C20_Witness ==
  /\ gen.pc = "done"
  /\ tasks[1].pc = "done"
  /\ tasks[1].name = T_list_api_endpoints
  /\ Len(gen.operations) >= 3
  /\ InOrder(gen.operations) # [i \in 1..Len(gen.operations) |-> gen.operations[i].operationId]
  /\ \E i, j \in 1..Len(gen.operations) :
       /\ gen.operations[i].operationId # gen.operations[j].operationId
       /\ startsWith(gen.operations[j].operationId, gen.operations[i].operationId)

\* C21 as stated: parsing the derived mainResource again gives the same
\* mainResource and the same isDetailOperation as the first parse.
C21_ReparseSameOutcome ==
  parseOut.reran =>
    /\ parseOut.again.mainResource = parseOut.server.mainResource
    /\ parseOut.again.isDetailOperation = parseOut.server.isDetailOperation

\* C21 amended: parsing the derived mainResource again gives the same
\* mainResource, and the second parse is never a detail operation: the detail
\* flag is the one of the first parse exactly when the first parse was not a
\* detail operation.
C21_ReparseSameResource ==
  parseOut.reran =>
    /\ parseOut.again.mainResource = parseOut.server.mainResource
    /\ ~parseOut.again.isDetailOperation

\* C21 witness: a detail operation and its mainResource were both parsed
C21_Witness ==
  /\ parseOut.reran
  /\ parseOut.server.isDetailOperation
  /\ parseOut.server.mainResource = S_customers
  /\ parseOut.again.mainResource = S_customers

\* C22: after invokeStripeByOperationId has reached its backend call or has
\* thrown, the parameters object of the caller holds the keys and values it was
\* passed with; the identifier key is missing only from the options of the call.
C22_CallerBagUntouched ==
  \A t \in Tasks :
    Invoked(t) =>
      /\ tasks[t].bag = tasks[t].parameters
      /\ tasks[t].name = T_invoke_api_endpoint =>
           tasks[t].bag = parametersOf(tasks[t].args)
      /\ tasks[t].name # T_invoke_api_endpoint => tasks[t].bag = tasks[t].args

\* C22 witness: a call was made with an identifier taken from the bag: the key
\* is gone from the options of the call and is still in the caller's bag
C22_Witness ==
  \E t \in Tasks :
    /\ Invoked(t)
    /\ tasks[t].inv.outcome = "call"
    /\ tasks[t].inv.call.ids = <<"cus_1">>
    /\ "customer" \notin DOMAIN tasks[t].inv.call.options
    /\ "customer" \in DOMAIN tasks[t].bag

\* the operationIds of the Schema Index: the operations under the five verbs on
\* the paths of the two shapes
IndexedOperationIds(paths) ==
  UNION {{paths[i].item[m].operationId :
            m \in DOMAIN paths[i].item \cap {"get", "post", "put", "patch", "delete"}} :
         i \in {k \in 1..Len(paths) :
                  CollectionShape(paths[k].path) \/ DetailShape(paths[k].path)}}

\* C23: a request whose name is none of the three tools is invoked with the
\* name as operationId and the arguments as parameters; when the name is not in
\* the Schema Index it is answered "Unknown tool: <name>" without a backend
\* call. The list and schema tools never reach a backend call.
C23_FallbackAndReadOnlyTools ==
  \A t \in Tasks :
    /\ (tasks[t].pc # "idle"
          /\ tasks[t].name \notin {T_list_api_endpoints, T_get_api_endpoint_schema,
                                   T_invoke_api_endpoint}) =>
         /\ tasks[t].operationId = tasks[t].name
         /\ tasks[t].parameters = tasks[t].args
         /\ tasks[t].name \notin IndexedOperationIds(spec) =>
              /\ tasks[t].pc = "done"
              /\ tasks[t].ncalls = 0
              /\ tasks[t].inv.call = NoCall
              /\ tasks[t].reply = textContent(M.Unknown_tool \o tasks[t].name)
    /\ tasks[t].name \in {T_list_api_endpoints, T_get_api_endpoint_schema} =>
         /\ tasks[t].pc = "done"
         /\ tasks[t].ncalls = 0
         /\ tasks[t].inv = NoResolution

\* C23 witness: a name that is not in the Schema Index was answered as an
\* unknown tool while a schema lookup has replied beside it
C23_Witness ==
  \E t, u \in Tasks :
    /\ tasks[t].pc = "done"
    /\ tasks[t].name = S_GetNothing
    /\ tasks[t].reply = textContent(M.Unknown_tool \o S_GetNothing)
    /\ tasks[u].pc = "done"
    /\ tasks[u].name = T_get_api_endpoint_schema

====
